---- MODULE Spec2Model ----
(***************************************************************************)
(* Model of the Polymarket nested order book: the level store              *)
(* (data_models.py), the market graph and token index                      *)
(* (orderbook_manager.py), the arbitrage evaluator                         *)
(* (arbitrage_analyzer.py), the ingestion handler (poly_orderbook.py),     *)
(* the connection sharding (multi_poly_websocket.py) and the stream        *)
(* connection with its reconnect loop (poly_websocket.py).                 *)
(***************************************************************************)
EXTENDS Integers, Sequences, FiniteSets, TLC

VARIABLES
    \* ---- a single OrderBookSide driven directly (data_models.py)
    side,             \* [levels, max_levels, is_bids]
    sideCall,         \* history: the last update call on side, [kind, input]
    \* ---- the market graph, the evaluator and the ingestion handler
    events,           \* OrderBookManager.events: str(event_id) -> Event
    token_to_outcome, \* TokenMapper.token_to_outcome: token -> <<event, market, side>>
    opportunities,    \* the opportunity log (arbitrage_opportunities.jsonl)
    threshold,        \* ArbitrageAnalyzer.threshold, as the text str(threshold)
    clock,            \* datetime.utcnow(), as a logical clock
    delivered,        \* history: the book-update messages handed to the handler
    lastCall,         \* history: what the last handler call did
    loads,            \* history: the event definitions loaded, in order
    \* ---- connection sharding
    asset_ids,        \* the token ids the application subscribes to
    chunk_size,       \* max_websocket_connections / chunk_size
    clients,          \* the asset_ids of each Stream Connection created
    path,             \* which branch PolyOrderBookApp.start took
    \* ---- one stream connection
    running,          \* PolyWebSocket.running
    websocket,        \* PolyWebSocket.websocket: "none" or "open"
    reconnect_delay,  \* PolyWebSocket.reconnect_delay
    ping_task,        \* PolyWebSocket.ping_task: "none", "live" or "done"
    pc,               \* where the _connect coroutine stands
    slept,            \* history: the delays slept, newest last
    failures,         \* history: failures since the last successful connection
    attemptFails,     \* history: failed websockets.connect calls since the last success
    lastFail,         \* history: where the last failure arose: "connect", "send" or "lost"
    \* ---- one inbound frame passing through PolyWebSocket._handle_message
    lastFrame,        \* history: the last frame and the items given to on_book
    \* ---- the application with a MultiPolyWebSocket of several shards
    shard,            \* per client: [running, websocket, reconnect_delay, ping_task, pc]
    appPc,            \* where PolyOrderBookApp.start stands
    appRunning,       \* PolyOrderBookApp.running
    stopPc,           \* where the task of PolyOrderBookApp.stop stands
    shardDelivered,   \* history: book updates each shard gave to the handler
    ticks,            \* history: iterations of the application's run loop
    \* ---- the traffic of one stream connection
    sent,             \* the subscription requests sent on the current socket
    inbox,            \* frames that arrived on the current socket, not yet read
    arrivals,         \* history: frames that arrived in the run
    handled,          \* history: the on_book calls, [frame, item, subs, sleeps]
    frame_failed,     \* history: a frame read from the current socket failed
    keepalive,        \* where _keepalive stands: "none", "due" or "sleeping"
    ping_event,       \* history: [last, failed]: the _send_ping of this round of
                      \* _keepalive ("none", "sent" or "failed"), and whether
                      \* a ping has failed in the run
    orphans,          \* the live _keepalive tasks that ping_task no longer names
    stops,            \* per stop() call: where it stands, [pc, again]
    conn_call,        \* history: the last start() call that did not enter _connect
    \* ---- the ingestion handler with its raw log, step by step
    save_raw,         \* PolyOrderBookApp.save_raw
    raw_log,          \* the raw update log (book_updates.jsonl)
    lastCheck,        \* history: a check_event call repeated on the same graph
    in_handler,       \* per client: where its call of handle_book_update stands
    \* ---- the application from construction to start
    event_id_filter,  \* PolyOrderBookApp.event_id_filter; "" is None
    printer           \* the printer thread: "none" or "started"

sideVars   == <<side, sideCall>>
marketVars == <<events, token_to_outcome, opportunities, threshold, clock,
                delivered, lastCall, loads>>
chunkVars  == <<asset_ids, chunk_size, clients, path>>
connVars   == <<running, websocket, reconnect_delay, ping_task, pc, slept,
                failures, attemptFails, lastFail>>
frameVars  == <<lastFrame>>
multiVars  == <<shard, appPc, appRunning, stopPc, shardDelivered, ticks>>
streamVars == <<sent, inbox, arrivals, handled, frame_failed, keepalive, ping_event,
                orphans, stops, conn_call>>
ingestVars == <<save_raw, raw_log, lastCheck, in_handler>>
bootVars   == <<event_id_filter, printer>>
vars == <<sideVars, bootVars, marketVars, chunkVars, connVars, frameVars, multiVars,
          streamVars, ingestVars>>

(***************************************************************************)
(* Bounds of the model.                                                    *)
(***************************************************************************)
MaxInputLevels == 3     \* levels in one side of one update message

(***************************************************************************)
(* Price and size texts.  The venue sends prices and sizes as JSON         *)
(* strings; the code converts them with float() for sorting and with       *)
(* Decimal() for the sum.  Values are in units of 1/100.                   *)
(***************************************************************************)
\* float(text) succeeds / Decimal(text) succeeds: the same texts for both
IsNumber(t) == t \in {"0.40", "0.4", "0.30", "0.20", "0.97", "0.99", "0.95",
                      "10", "5", "0.10"}

\* float(text), in hundredths
FloatOf(t) ==
    CASE t = "0.40" -> 40  [] t = "0.4"  -> 40  [] t = "0.30" -> 30
      [] t = "0.20" -> 20  [] t = "0.97" -> 97  [] t = "0.99" -> 99
      [] t = "0.95" -> 95  [] t = "0.10" -> 10
      [] t = "10"   -> 1000 [] t = "5"   -> 500

\* Decimal(text): coefficient and exponent, which str() renders back
DecimalOf(t) ==
    CASE t = "0.40" -> [coef |-> 40, exp |-> -2]
      [] t = "0.4"  -> [coef |-> 4,  exp |-> -1]
      [] t = "0.30" -> [coef |-> 30, exp |-> -2]
      [] t = "0.20" -> [coef |-> 20, exp |-> -2]
      [] t = "0.97" -> [coef |-> 97, exp |-> -2]
      [] t = "0.99" -> [coef |-> 99, exp |-> -2]
      [] t = "0.95" -> [coef |-> 95, exp |-> -2]
      [] t = "0.10" -> [coef |-> 10, exp |-> -2]
      [] t = "10"   -> [coef |-> 10, exp |-> 0]
      [] t = "5"    -> [coef |-> 5,  exp |-> 0]

Pow10(n) == IF n = 0 THEN 1 ELSE IF n = 1 THEN 10 ELSE IF n = 2 THEN 100 ELSE 1000

MinInt(a, b) == IF a <= b THEN a ELSE b

\* Decimal.__add__: the result takes the smaller exponent
DecAdd(a, b) ==
    LET e == MinInt(a.exp, b.exp)
    IN  [coef |-> a.coef * Pow10(a.exp - e) + b.coef * Pow10(b.exp - e), exp |-> e]

\* Decimal.__le__
DecLe(a, b) ==
    LET e == MinInt(a.exp, b.exp)
    IN  a.coef * Pow10(a.exp - e) <= b.coef * Pow10(b.exp - e)

\* the value of a Decimal in hundredths (all exponents here are >= -2)
DecCents(d) == d.coef * Pow10(d.exp + 2)

(***************************************************************************)
(* OrderBookLevel and OrderBookSide.                                       *)
(***************************************************************************)
OrderBookLevel(price, size) == [price |-> price, size |-> size]

DEFAULT_MAX_LEVELS == 2

OrderBookSide(is_bids) ==
    [levels |-> <<>>, max_levels |-> DEFAULT_MAX_LEVELS, is_bids |-> is_bids]

\* where sorted() puts x in an already sorted prefix: after every element that
\* does not sort strictly after it (sorted is stable, also with reverse=True)
InsertPos(sorted, x, reverse) ==
    LET after(i) == IF reverse THEN FloatOf(sorted[i].price) < FloatOf(x.price)
                               ELSE FloatOf(sorted[i].price) > FloatOf(x.price)
        firstAfter == {i \in 1..Len(sorted) : after(i)}
    IN  IF firstAfter = {} THEN Len(sorted) + 1
        ELSE CHOOSE i \in firstAfter : \A j \in firstAfter : i <= j

RECURSIVE SortedByPrice(_, _)
SortedByPrice(levels, reverse) ==
    IF levels = <<>> THEN <<>>
    ELSE LET n    == Len(levels)
             rest == SortedByPrice(SubSeq(levels, 1, n - 1), reverse)
             x    == levels[n]
             p    == InsertPos(rest, x, reverse)
         IN  SubSeq(rest, 1, p - 1) \o <<x>> \o SubSeq(rest, p, Len(rest))

\* sorted_levels[:max_levels]
Take(s, n) == SubSeq(s, 1, MinInt(Len(s), n))

\* OrderBookSide.update with the sort direction ignored (reverse always False)
SideUpdateNoReverse(s, new_levels) ==
    IF new_levels = <<>>
    THEN [raised |-> FALSE, side |-> [s EXCEPT !.levels = <<>>]]
    ELSE IF \E i \in 1..Len(new_levels) : ~IsNumber(new_levels[i].price)
         THEN [raised |-> TRUE, side |-> s]
         ELSE [raised |-> FALSE,
               side |-> [s EXCEPT !.levels =
                            Take(SortedByPrice(new_levels, FALSE), s.max_levels)]]

\* OrderBookSide.update as an incremental merge: the new levels are sorted in
\* with the levels already stored
SideUpdateMerge(s, new_levels) ==
    IF new_levels = <<>>
    THEN [raised |-> FALSE, side |-> [s EXCEPT !.levels = <<>>]]
    ELSE IF \E i \in 1..Len(new_levels) : ~IsNumber(new_levels[i].price)
         THEN [raised |-> TRUE, side |-> s]
         ELSE [raised |-> FALSE,
               side |-> [s EXCEPT !.levels =
                            Take(SortedByPrice(s.levels \o new_levels, s.is_bids),
                                 s.max_levels)]]

\* OrderBookSide.update: [raised, side]; float() raises ValueError on a price
\* that is no number, before self.levels is assigned
SideUpdate(s, new_levels) ==
    IF new_levels = <<>>
    THEN [raised |-> FALSE, side |-> [s EXCEPT !.levels = <<>>]]
    ELSE LET lv == [i \in 1..Len(new_levels) |->
                        OrderBookLevel(new_levels[i].price, new_levels[i].size)]
         IN  IF \E i \in 1..Len(lv) : ~IsNumber(lv[i].price)
             THEN [raised |-> TRUE, side |-> s]
             ELSE [raised |-> FALSE,
                   side |-> [s EXCEPT !.levels =
                                Take(SortedByPrice(lv, s.is_bids), s.max_levels)]]

SeqsUpTo(S, n) == UNION {[1..k -> S] : k \in 0..n}

(***************************************************************************)
(* States in which a part of the program has not been started; each        *)
(* specification below runs one part and leaves the others here.           *)
(***************************************************************************)
NoCall == [kind |-> "none"]

\* no update call made yet on the side; before is side.levels as the last call
\* found it, repeat says the last call had the input of the call before it
NoSideCall == [kind |-> "none", input |-> <<>>, before |-> <<>>, repeat |-> FALSE]

SideIdle ==
    /\ side = OrderBookSide(FALSE)
    /\ sideCall = NoSideCall

MarketIdle ==
    /\ events = <<>>
    /\ token_to_outcome = <<>>
    /\ opportunities = <<>>
    /\ threshold = "0.99"
    /\ clock = 0
    /\ delivered = <<>>
    /\ lastCall = NoCall
    /\ loads = <<>>

ChunkIdle ==
    /\ asset_ids = <<>>
    /\ chunk_size = 1
    /\ clients = <<>>
    /\ path = "none"

FrameIdle == lastFrame = [kind |-> "none"]

MultiIdle ==
    /\ shard = <<>>
    /\ appPc = "idle"
    /\ appRunning = FALSE
    /\ stopPc = "none"
    /\ shardDelivered = <<>>
    /\ ticks = 0

BootIdle ==
    /\ event_id_filter = ""
    /\ printer = "none"

IngestIdle ==
    /\ save_raw = FALSE
    /\ raw_log = <<>>
    /\ lastCheck = NoCall
    /\ in_handler = <<>>

StreamIdle ==
    /\ sent = <<>>
    /\ inbox = <<>>
    /\ arrivals = 0
    /\ handled = <<>>
    /\ frame_failed = FALSE
    /\ keepalive = "none"
    /\ ping_event = [last |-> "none", failed |-> FALSE]
    /\ orphans = 0
    /\ stops = <<>>
    /\ conn_call = NoCall

ConnIdle ==
    /\ running = FALSE
    /\ websocket = "none"
    /\ reconnect_delay = 1
    /\ ping_task = "none"
    /\ pc = "idle"
    /\ slept = <<>>
    /\ failures = 0
    /\ attemptFails = 0
    /\ lastFail = "none"

(***************************************************************************)
(* SpecSide: one OrderBookSide (a bids side or an asks side) receiving any  *)
(* sequence of update calls.                                               *)
(***************************************************************************)
SidePrices == {"0.40", "0.4", "0.30", "abc"}
SideSizes  == {"10"}
SideLevelInputs == {[price |-> p, size |-> z] : p \in SidePrices, z \in SideSizes}
SideInputs == SeqsUpTo(SideLevelInputs, MaxInputLevels)

SideInit ==
    /\ side \in {OrderBookSide(b) : b \in BOOLEAN}
    /\ sideCall = NoSideCall

\* a call side.update(inp); an exception leaves the call and is recorded
SideUpdateCall ==
    \E inp \in SideInputs :
        LET r == SideUpdate(side, inp)
        IN  /\ side' = r.side
            /\ sideCall' = [kind |-> IF r.raised THEN "raised" ELSE "ok",
                            input |-> inp,
                            before |-> side.levels,
                            repeat |-> sideCall.kind /= "none" /\ sideCall.input = inp]
            /\ UNCHANGED <<marketVars, chunkVars, connVars, frameVars, multiVars,
                           streamVars, ingestVars, bootVars>>

InitSide == SideInit /\ MarketIdle /\ ChunkIdle /\ ConnIdle /\ FrameIdle /\ MultiIdle /\ StreamIdle /\ BootIdle /\ IngestIdle

SpecSide == InitSide /\ [][SideUpdateCall]_vars

\* the levels of l are in the side's direction by numeric price
InDirection(l, is_bids) ==
    \A i, j \in 1..Len(l) :
        i < j => IF is_bids THEN FloatOf(l[i].price) >= FloatOf(l[j].price)
                            ELSE FloatOf(l[i].price) <= FloatOf(l[j].price)

\* no price of the input inp is better than p for a side of this direction
BestOf(p, inp, is_bids) ==
    \A i \in 1..Len(inp) :
        IF is_bids THEN FloatOf(inp[i].price) <= FloatOf(p)
                   ELSE FloatOf(inp[i].price) >= FloatOf(p)

\* C1: after any sequence of update calls the side holds at most max_levels
\* levels, ordered by numeric price in the side's direction (descending for
\* bids, ascending for asks); after a completed update the first level is the
\* best price of the input, and a completed update with an empty input leaves
\* the side empty.
C1_SideBoundedSorted ==
    /\ Len(side.levels) <= side.max_levels
    /\ InDirection(side.levels, side.is_bids)
    /\ (sideCall.kind = "ok" /\ sideCall.input = <<>>) => side.levels = <<>>
    /\ (sideCall.kind = "ok" /\ sideCall.input /= <<>>) =>
           /\ side.levels /= <<>>
           /\ BestOf(side.levels[1].price, sideCall.input, side.is_bids)

\* a bids side that kept the two best of three levels given in another order
C1_Witness ==
    /\ side.is_bids
    /\ sideCall.kind = "ok"
    /\ Len(sideCall.input) = 3
    /\ FloatOf(sideCall.input[1].price) < FloatOf(sideCall.input[3].price)
    /\ Len(side.levels) = 2
    /\ FloatOf(side.levels[1].price) > FloatOf(side.levels[2].price)

\* a level whose price float() accepts
PriceParses(l) == IsNumber(l.price)

\* C20 (as claimed): when an update contains a level whose price cannot be
\* parsed, only that level is dropped: the side then holds the best max_levels
\* of the remaining levels of the update, in the side's direction.
C20_OnlyBadLevelDropped ==
    sideCall.kind /= "none" =>
        side.levels = Take(SortedByPrice(SelectSeq(sideCall.input, PriceParses),
                                         side.is_bids),
                           side.max_levels)

\* C22: OrderBookSide.update is idempotent: a call with the input of the call
\* just before it leaves the side as that call left it, whatever the side held
\* and whatever the input (also one on which both calls raise).
C22_UpdateIdempotent ==
    sideCall.repeat => side.levels = sideCall.before

\* the same three levels given twice in a row to a side, both calls completing
C22_Witness ==
    /\ sideCall.repeat
    /\ sideCall.kind = "ok"
    /\ Len(sideCall.input) = 3
    /\ Len(side.levels) = 2
    /\ sideCall.before = side.levels

\* the levels of a non-empty input inp kept by a side of this direction
FirstSorted(inp, is_bids, max_levels) ==
    Take(SortedByPrice(inp, is_bids), max_levels)

\* C23 (as claimed): update is a full replace: after every update call the
\* side depends only on the input of that call: it is empty for an empty
\* input, equals the first max_levels entries of a non-empty input sorted in
\* the side's direction, and holds no level that was stored before the call
\* and is absent from the input.
C23_FullReplace ==
    sideCall.kind /= "none" =>
        /\ sideCall.input = <<>> => side.levels = <<>>
        /\ \A i \in 1..Len(side.levels) :
               \E j \in 1..Len(sideCall.input) :
                   side.levels[i] = sideCall.input[j]
        /\ (sideCall.input /= <<>> /\ \A j \in 1..Len(sideCall.input) :
                                        PriceParses(sideCall.input[j])) =>
               side.levels = FirstSorted(sideCall.input, side.is_bids, side.max_levels)

\* the full replace as the code performs it: by every call that completes
FullReplaceWhenCompleted ==
    sideCall.kind = "ok" =>
        /\ sideCall.input = <<>> => side.levels = <<>>
        /\ sideCall.input /= <<>> =>
               side.levels = FirstSorted(sideCall.input, side.is_bids, side.max_levels)

(***************************************************************************)
(* OrderBook, OutcomeSide, Outcome, Event and the TokenMapper.             *)
(***************************************************************************)
NoneTime == 0      \* last_updated = None; the clock starts above it

OrderBook ==
    [bids |-> OrderBookSide(TRUE), asks |-> OrderBookSide(FALSE),
     last_updated |-> NoneTime]

\* OrderBook.update: [raised, book].  The bids are replaced first; when the
\* asks then raise, the bids stay replaced and last_updated is not assigned.
BookUpdate(book, data, now) ==
    LET rb == SideUpdate(book.bids, data.bids)
        ra == SideUpdate(book.asks, data.asks)
    IN  IF rb.raised THEN [raised |-> TRUE, book |-> book]
        ELSE IF ra.raised
             THEN [raised |-> TRUE, book |-> [book EXCEPT !.bids = rb.side]]
             ELSE [raised |-> FALSE,
                   book |-> [bids |-> rb.side, asks |-> ra.side, last_updated |-> now]]

OutcomeSide(token_id) == [token_id |-> token_id, order_book |-> OrderBook]

\* Outcome.from_outcome_json
Outcome(od) ==
    [title |-> od.title, market_id |-> od.market_id,
     yes |-> OutcomeSide(od.yes), no |-> OutcomeSide(od.no)]

\* a dict keyed by market_id, in insertion order: a sequence of outcomes
DictHas(d, k) == \E i \in 1..Len(d) : d[i].market_id = k
DictIdx(d, k) == CHOOSE i \in 1..Len(d) : d[i].market_id = k
DictPut(d, v) ==
    IF DictHas(d, v.market_id) THEN [d EXCEPT ![DictIdx(d, v.market_id)] = v]
    ELSE Append(d, v)

RECURSIVE OutcomesFromJson(_, _)
OutcomesFromJson(ods, n) ==
    IF n = 0 THEN <<>>
    ELSE DictPut(OutcomesFromJson(ods, n - 1), Outcome(ods[n]))

\* Event.from_event_json
Event(ed) ==
    [event_id |-> ed.event_id, title |-> ed.title,
     outcomes |-> OutcomesFromJson(ed.outcomes, Len(ed.outcomes))]

\* str(event.event_id)
StrOfId(n) == CASE n = 1 -> "1" [] n = 2 -> "2" [] n = 3 -> "3" [] n = 4 -> "4"

\* d[k] = v on a dict held as a function
Assign(d, k, v) == [x \in DOMAIN d \cup {k} |-> IF x = k THEN v ELSE d[x]]

\* TokenMapper.add_event, over the first n outcomes
RECURSIVE MapperAdd(_, _, _)
MapperAdd(map, event, n) ==
    IF n = 0 THEN map
    ELSE LET m == MapperAdd(map, event, n - 1)
             o == event.outcomes[n]
             e == StrOfId(event.event_id)
         IN  Assign(Assign(m, o.yes.token_id, <<e, o.market_id, "yes">>),
                    o.no.token_id, <<e, o.market_id, "no">>)

\* add_event with the token index rebuilt from the loaded event alone
AddEventRebuild(evs, map, ed) ==
    LET event == Event(ed)
    IN  [events |-> Assign(evs, StrOfId(event.event_id), event),
         token_to_outcome |-> MapperAdd(<<>>, event, Len(event.outcomes))]

\* OrderBookManager.add_event: [events, token_to_outcome]
AddEvent(evs, map, ed) ==
    LET event == Event(ed)
    IN  [events |-> Assign(evs, StrOfId(event.event_id), event),
         token_to_outcome |-> MapperAdd(map, event, Len(event.outcomes))]

\* OrderBookManager.load_events_from_file over a list of well-formed entries
RECURSIVE LoadEvents(_, _)
LoadEvents(eds, n) ==
    IF n = 0 THEN [events |-> <<>>, token_to_outcome |-> <<>>]
    ELSE LET m == LoadEvents(eds, n - 1)
         IN  AddEvent(m.events, m.token_to_outcome, eds[n])

\* OrderBookManager.handle_book_update: [processed, raised, events]
ManagerHandle(evs, map, data, now) ==
    LET miss == [processed |-> FALSE, raised |-> FALSE, events |-> evs]
    IN  IF data.asset_id = "" THEN miss
        ELSE IF data.asset_id \notin DOMAIN map THEN miss
        ELSE LET info == map[data.asset_id]
             IN  IF info[1] \notin DOMAIN evs THEN miss
                 ELSE IF ~DictHas(evs[info[1]].outcomes, info[2]) THEN miss
                 ELSE LET i  == DictIdx(evs[info[1]].outcomes, info[2])
                          o  == evs[info[1]].outcomes[i]
                          bk == IF info[3] = "yes" THEN o.yes.order_book
                                                   ELSE o.no.order_book
                          r  == BookUpdate(bk, data, now)
                          o2 == IF info[3] = "yes"
                                THEN [o EXCEPT !.yes.order_book = r.book]
                                ELSE [o EXCEPT !.no.order_book = r.book]
                      IN  [processed |-> ~r.raised, raised |-> r.raised,
                           events |-> [evs EXCEPT ![info[1]].outcomes[i] = o2]]

(***************************************************************************)
(* ArbitrageAnalyzer.                                                      *)
(***************************************************************************)
\* _get_decimal_value on the best level of a side: "none" without a level,
\* "raise" when Decimal() rejects the price or the size (it raises
\* decimal.InvalidOperation, which is neither ValueError nor TypeError and so
\* passes the except clause), else the two Decimals
GetDecimalValue(s) ==
    IF s.levels = <<>> THEN [kind |-> "none"]
    ELSE LET level == s.levels[1]
         IN  IF ~IsNumber(level.price) \/ ~IsNumber(level.size)
             THEN [kind |-> "raise"]
             ELSE [kind |-> "value", price |-> DecimalOf(level.price),
                   size |-> DecimalOf(level.size)]

Decimal0 == [coef |-> 0, exp |-> 0]

\* the loop of check_event reading the best ask of the NO side of an outcome
\* that has no YES ask
RECURSIVE CollectEitherSide(_, _)
CollectEitherSide(outs, n) ==
    IF n = 0
    THEN [raised |-> FALSE, cost_sum |-> Decimal0, count_with_asks |-> 0,
          asks_data |-> <<>>]
    ELSE LET acc == CollectEitherSide(outs, n - 1)
             o   == outs[n]
             y   == GetDecimalValue(o.yes.order_book.asks)
             v   == IF y.kind = "none" THEN GetDecimalValue(o.no.order_book.asks)
                    ELSE y
         IN  IF acc.raised THEN acc
             ELSE IF v.kind = "raise" THEN [acc EXCEPT !.raised = TRUE]
             ELSE IF v.kind = "none" THEN acc
             ELSE [raised |-> FALSE,
                   cost_sum |-> DecAdd(acc.cost_sum, v.price),
                   count_with_asks |-> acc.count_with_asks + 1,
                   asks_data |-> Append(acc.asks_data,
                       [outcome_title |-> o.title,
                        best_ask_price |-> v.price,
                        best_ask_size |-> v.size,
                        token_id |-> o.yes.token_id,
                        last_updated |-> o.yes.order_book.last_updated])]

\* the loop of check_event over the first n outcomes
RECURSIVE Collect(_, _)
Collect(outs, n) ==
    IF n = 0
    THEN [raised |-> FALSE, cost_sum |-> Decimal0, count_with_asks |-> 0,
          asks_data |-> <<>>]
    ELSE LET acc == Collect(outs, n - 1)
             o   == outs[n]
             v   == GetDecimalValue(o.yes.order_book.asks)
         IN  IF acc.raised THEN acc
             ELSE IF v.kind = "raise" THEN [acc EXCEPT !.raised = TRUE]
             ELSE IF v.kind = "none" THEN acc
             ELSE [raised |-> FALSE,
                   cost_sum |-> DecAdd(acc.cost_sum, v.price),
                   count_with_asks |-> acc.count_with_asks + 1,
                   asks_data |-> Append(acc.asks_data,
                       [outcome_title |-> o.title,
                        best_ask_price |-> v.price,
                        best_ask_size |-> v.size,
                        token_id |-> o.yes.token_id,
                        last_updated |-> o.yes.order_book.last_updated])]

\* check_event reporting only when every outcome of the event has an ask
CheckEventAllRequired(event, thr, now) ==
    LET c == Collect(event.outcomes, Len(event.outcomes))
    IN  IF c.raised THEN [raised |-> TRUE, reported |-> FALSE]
        ELSE IF c.count_with_asks < Len(event.outcomes)
             THEN [raised |-> FALSE, reported |-> FALSE]
        ELSE IF DecLe(c.cost_sum, DecimalOf(thr))
             THEN [raised |-> FALSE, reported |-> TRUE,
                   record |-> [event_id |-> event.event_id, event_title |-> event.title,
                               timestamp |-> now, threshold |-> thr,
                               cost_sum |-> c.cost_sum, is_arbitrage |-> TRUE,
                               outcomes |-> c.asks_data]]
             ELSE [raised |-> FALSE, reported |-> FALSE]

\* ArbitrageAnalyzer.check_event: [raised, reported, record]; cost_sum and
\* the prices and sizes of the record are the Decimals whose str() is written
CheckEvent(event, thr, now) ==
    LET c == Collect(event.outcomes, Len(event.outcomes))
    IN  IF c.raised THEN [raised |-> TRUE, reported |-> FALSE]
        ELSE IF c.count_with_asks = 0 THEN [raised |-> FALSE, reported |-> FALSE]
        ELSE IF DecLe(c.cost_sum, DecimalOf(thr))
             THEN [raised |-> FALSE, reported |-> TRUE,
                   record |-> [event_id |-> event.event_id, event_title |-> event.title,
                               timestamp |-> now, threshold |-> thr,
                               cost_sum |-> c.cost_sum, is_arbitrage |-> TRUE,
                               outcomes |-> c.asks_data]]
             ELSE [raised |-> FALSE, reported |-> FALSE]

(***************************************************************************)
(* PolyOrderBookApp.handle_book_update.                                    *)
(***************************************************************************)
\* the result of one handler call: the graph and the log after it, and what
\* happened in it.  seen is the event as check_event read it.
HandlerResult(evs, log, data, processed, raised, evaluated, seen, reported) ==
    [events |-> evs, opportunities |-> log,
     call |-> [kind |-> "update", data |-> data, processed |-> processed,
               raised |-> raised, evaluated |-> evaluated, seen |-> seen,
               reported |-> reported]]

NoEvent == [event_id |-> 0, title |-> "", outcomes |-> <<>>]

\* the evaluation step of the handler, on the event ev it is given
Evaluate(evs, log, data, ev, thr, now) ==
    LET outcome_count == Len(ev.outcomes)
    IN  IF outcome_count >= 2
        THEN LET c == CheckEvent(ev, thr, now)
             IN  HandlerResult(evs,
                               IF c.reported THEN Append(log, c.record) ELSE log,
                               data, TRUE, IF c.raised THEN "check" ELSE "none",
                               TRUE, ev, c.reported)
        ELSE HandlerResult(evs, log, data, TRUE, "none", FALSE, NoEvent, FALSE)

\* the handler evaluating the event as it was before the update
AppHandleStale(evs, map, log, thr, data, now) ==
    LET m == ManagerHandle(evs, map, data, now)
    IN  IF m.raised
        THEN HandlerResult(m.events, log, data, FALSE, "book", FALSE, NoEvent, FALSE)
        ELSE IF ~m.processed
        THEN HandlerResult(m.events, log, data, FALSE, "none", FALSE, NoEvent, FALSE)
        ELSE Evaluate(m.events, log, data, evs[map[data.asset_id][1]], thr, now)

\* the handler evaluating only events with two or more outcomes that have asks
AppHandleAskGate(evs, map, log, thr, data, now) ==
    LET m  == ManagerHandle(evs, map, data, now)
        ev == m.events[map[data.asset_id][1]]
    IN  IF m.raised
        THEN HandlerResult(m.events, log, data, FALSE, "book", FALSE, NoEvent, FALSE)
        ELSE IF ~m.processed
        THEN HandlerResult(m.events, log, data, FALSE, "none", FALSE, NoEvent, FALSE)
        ELSE IF Cardinality({i \in 1..Len(ev.outcomes) :
                                ev.outcomes[i].yes.order_book.asks.levels /= <<>>}) >= 2
        THEN Evaluate(m.events, log, data, ev, thr, now)
        ELSE HandlerResult(m.events, log, data, TRUE, "none", FALSE, NoEvent, FALSE)

\* the handler evaluating event "1" also when the manager did not process
AppHandleEvalOnMiss(evs, map, log, thr, data, now) ==
    LET m == ManagerHandle(evs, map, data, now)
    IN  IF m.raised
        THEN HandlerResult(m.events, log, data, FALSE, "book", FALSE, NoEvent, FALSE)
        ELSE IF ~m.processed
        THEN [Evaluate(m.events, log, data, m.events["1"], thr, now)
                EXCEPT !.call.processed = FALSE]
        ELSE Evaluate(m.events, log, data, m.events[map[data.asset_id][1]], thr, now)

\* PolyOrderBookApp.handle_book_update (save_raw off).  An exception of the
\* book update or of check_event leaves the handler with the graph as the
\* calls before it left it.
AppHandle(evs, map, log, thr, data, now) ==
    LET m == ManagerHandle(evs, map, data, now)
    IN  IF m.raised
        THEN HandlerResult(m.events, log, data, FALSE, "book", FALSE, NoEvent, FALSE)
        ELSE IF ~m.processed
        THEN HandlerResult(m.events, log, data, FALSE, "none", FALSE, NoEvent, FALSE)
        ELSE \* token_info and event are found again: the update just used them
             Evaluate(m.events, log, data, m.events[map[data.asset_id][1]], thr, now)

(***************************************************************************)
(* Event definitions and book-update messages used by the specifications.  *)
(***************************************************************************)
OutcomeDef(t, m, y, n) == [title |-> t, market_id |-> m, yes |-> y, no |-> n]

\* an event of three outcomes and an event of a single outcome
Def1 == [event_id |-> 1, title |-> "E1",
         outcomes |-> <<OutcomeDef("o1", "m1", "y1", "n1"),
                        OutcomeDef("o2", "m2", "y2", "n2"),
                        OutcomeDef("o3", "m3", "y3", "n3")>>]
Def2 == [event_id |-> 2, title |-> "E2",
         outcomes |-> <<OutcomeDef("o4", "m4", "y4", "n4")>>]

\* list(self.token_mapper.token_to_outcome.keys()): the keys in insertion order
TokenIdsOf(eds) ==
    LET toks(ed) == [k \in 1..(2 * Len(ed.outcomes)) |->
                        IF k % 2 = 1 THEN ed.outcomes[(k + 1) \div 2].yes
                                     ELSE ed.outcomes[k \div 2].no]
    IN  toks(eds[1]) \o toks(eds[2])

L(p, z) == [price |-> p, size |-> z]
Msg(a, b, k) == [asset_id |-> a, bids |-> b, asks |-> k]

\* the bids and asks of a message
Payloads ==
    { <<<<>>, <<L("0.97", "10")>>>>,
      <<<<L("0.10", "5")>>, <<L("0.40", "10"), L("0.30", "5"), L("0.4", "5")>>>>,
      <<<<>>, <<L("0.4", "5")>>>>,
      <<<<L("0.10", "5")>>, <<L("abc", "10")>>>>,
      <<<<>>, <<L("0.40", "n/a")>>>>,
      <<<<>>, <<>>>> }

\* tokens of the messages: YES and NO tokens of the loaded events
MessageTokens == {"y1", "y2", "n1", "y4"}

\* the messages: every payload for every token, and a message for a token of
\* no loaded event and one without asset_id
Messages ==
    {Msg(a, p[1], p[2]) : a \in MessageTokens, p \in Payloads}
    \cup {Msg("zz", <<L("0.10", "5")>>, <<L("0.30", "5")>>),
          Msg("", <<L("0.10", "5")>>, <<L("0.30", "5")>>)}

MaxUpdates == 3       \* book-update messages delivered in one run

\* one book-update message reaches the handler (on_book)
HandleBookUpdate(msgs, limit, record) ==
    /\ clock < limit
    /\ \E data \in msgs :
        \E r \in {AppHandle(events, token_to_outcome, opportunities, threshold,
                           data, clock + 1)} :
            /\ events' = r.events
            /\ opportunities' = r.opportunities
            /\ lastCall' = r.call
            /\ clock' = clock + 1
            /\ delivered' = IF record THEN Append(delivered, data) ELSE delivered
    /\ UNCHANGED <<token_to_outcome, threshold, loads, sideVars, bootVars, ingestVars, streamVars, frameVars, multiVars, chunkVars, connVars>>

(***************************************************************************)
(* Spec: the application after construction from an event file holding     *)
(* Def1 and Def2, with an arbitrage threshold of 0.99 or 0.95, receiving    *)
(* book updates.                                                           *)
(***************************************************************************)
Thresholds == {"0.99", "0.95"}

Init ==
    /\ SideIdle /\ ChunkIdle /\ ConnIdle /\ FrameIdle /\ MultiIdle /\ StreamIdle /\ BootIdle /\ IngestIdle
    /\ LET m == LoadEvents(<<Def1, Def2>>, 2)
       IN  /\ events = m.events
           /\ token_to_outcome = m.token_to_outcome
    /\ loads = <<Def1, Def2>>
    /\ opportunities = <<>>
    /\ threshold \in Thresholds
    /\ clock = 0
    /\ delivered = <<>>
    /\ lastCall = NoCall

OnBook == HandleBookUpdate(Messages, MaxUpdates, FALSE)

Next == OnBook

Spec == Init /\ [][Next]_vars

(***************************************************************************)
(* Properties of the evaluator and of the ingestion handler.               *)
(***************************************************************************)
\* the outcomes of ev whose YES side holds ask levels
WithYesAsk(ev) ==
    {i \in 1..Len(ev.outcomes) : ev.outcomes[i].yes.order_book.asks.levels /= <<>>}

\* the YES best-ask price of outcome i, as a number of hundredths
YesAskCents(ev, i) == FloatOf(ev.outcomes[i].yes.order_book.asks.levels[1].price)

\* the sum of the YES best-ask prices over the first n outcomes, in hundredths
RECURSIVE SumYesAskCents(_, _)
SumYesAskCents(ev, n) ==
    IF n = 0 THEN 0
    ELSE SumYesAskCents(ev, n - 1) + (IF n \in WithYesAsk(ev) THEN YesAskCents(ev, n) ELSE 0)

\* the event that owns the token of the last handled message
OwningEvent == events[token_to_outcome[lastCall.data.asset_id][1]]

\* the order book the last handled message was routed to, in graph ev
RoutedBook(ev) ==
    LET info == token_to_outcome[lastCall.data.asset_id]
        o    == ev.outcomes[DictIdx(ev.outcomes, info[2])]
    IN  IF info[3] = "yes" THEN o.yes.order_book ELSE o.no.order_book

LastRecord == opportunities[Len(opportunities)]

\* C2 (as claimed): whenever check_event has run on an event, it reported an
\* opportunity (returned a record, appended to the log) if and only if at least
\* one outcome has a YES best ask and the sum S of the YES best-ask prices is
\* at most the threshold.
C2_ReportsIffSumWithinThreshold ==
    (lastCall.kind = "update" /\ lastCall.evaluated) =>
        LET ev == lastCall.seen
        IN  lastCall.reported <=>
                /\ WithYesAsk(ev) /= {}
                /\ SumYesAskCents(ev, Len(ev.outcomes)) <= FloatOf(threshold)

\* C11: a book-update message whose asset_id is missing or is no key of the
\* token index is discarded: the manager returns False, no order book of any
\* event changes, no evaluation is triggered and no record is appended.
C11_UnknownInstrumentDiscarded ==
    [][(lastCall'.kind = "update"
          /\ (lastCall'.data.asset_id = ""
                \/ lastCall'.data.asset_id \notin DOMAIN token_to_outcome))
        => /\ ~lastCall'.processed
           /\ lastCall'.raised = "none"
           /\ ~lastCall'.evaluated
           /\ events' = events
           /\ opportunities' = opportunities]_vars

\* a message for a token of no loaded event, discarded after a record was logged
\* and books were filled
C11_Witness ==
    /\ lastCall.kind = "update"
    /\ lastCall.data.asset_id = "zz"
    /\ ~lastCall.processed
    /\ Len(opportunities) = 1
    /\ clock = 2

\* C6 (as claimed): every order book whose bids or asks differ from the
\* initial empty state has last_updated set.
C6_LastUpdatedSetWhenChanged ==
    \A e \in DOMAIN events : \A i \in 1..Len(events[e].outcomes) :
        \A b \in {events[e].outcomes[i].yes.order_book,
                  events[e].outcomes[i].no.order_book} :
            (b.bids.levels /= <<>> \/ b.asks.levels /= <<>>)
                => b.last_updated /= NoneTime

\* C8: every opportunity record lists exactly the outcomes that had a YES best
\* ask when check_event ran, each with that level's price and size, the
\* outcome's title and its YES token id; cost_sum is the sum of exactly those
\* prices; and an outcome without ask data does not prevent the emission when
\* the asks of the others are well-formed and their sum is within the threshold.
C8_RecordListsOutcomesWithAsks ==
    /\ (lastCall.kind = "update" /\ lastCall.reported) =>
        LET ev == lastCall.seen
            r  == LastRecord
        IN  /\ Len(r.outcomes) = Cardinality(WithYesAsk(ev))
            /\ \A i \in WithYesAsk(ev) : \E k \in 1..Len(r.outcomes) :
                  LET lv == ev.outcomes[i].yes.order_book.asks.levels[1]
                  IN  /\ r.outcomes[k].token_id = ev.outcomes[i].yes.token_id
                      /\ r.outcomes[k].outcome_title = ev.outcomes[i].title
                      /\ DecCents(r.outcomes[k].best_ask_price) = FloatOf(lv.price)
                      /\ DecCents(r.outcomes[k].best_ask_size) = FloatOf(lv.size)
            /\ DecCents(r.cost_sum) = SumYesAskCents(ev, Len(ev.outcomes))
            /\ r.event_id = ev.event_id
    /\ (lastCall.kind = "update" /\ lastCall.evaluated) =>
        LET ev == lastCall.seen
        IN  (/\ WithYesAsk(ev) /= {}
             /\ \A i \in WithYesAsk(ev) :
                    IsNumber(ev.outcomes[i].yes.order_book.asks.levels[1].size)
             /\ WithYesAsk(ev) /= 1..Len(ev.outcomes)
             /\ SumYesAskCents(ev, Len(ev.outcomes)) <= FloatOf(threshold))
            => lastCall.reported

\* a record with two contributors and sum 0.70 for the event of three outcomes
C8_Witness ==
    /\ lastCall.kind = "update" /\ lastCall.reported
    /\ Len(lastCall.seen.outcomes) = 3
    /\ Len(LastRecord.outcomes) = 2
    /\ DecCents(LastRecord.cost_sum) = 70

\* C9: whenever check_event runs because of an update u, the event it reads is
\* the graph after the mutation, and the book of u's token in it holds the
\* levels of u: the best max_levels of u's bids and of u's asks, stamped with
\* the time of this update.
C9_EvaluatesAfterMutation ==
    (lastCall.kind = "update" /\ lastCall.evaluated) =>
        LET u == lastCall.data
            b == RoutedBook(lastCall.seen)
            holds(s, inp) ==
                /\ Len(s.levels) = MinInt(Len(inp), s.max_levels)
                /\ \A k \in 1..Len(s.levels) : \E j \in 1..Len(inp) : s.levels[k] = inp[j]
                /\ inp /= <<>> => BestOf(s.levels[1].price, inp, s.is_bids)
        IN  /\ lastCall.seen = OwningEvent
            /\ holds(b.bids, u.bids)
            /\ holds(b.asks, u.asks)
            /\ b.last_updated = clock

\* an evaluation after an update that replaced a non-empty ask side
C9_Witness ==
    /\ lastCall.kind = "update" /\ lastCall.evaluated
    /\ Len(lastCall.data.asks) = 3
    /\ clock >= 2
    /\ Len(RoutedBook(lastCall.seen).asks.levels) = 2
    /\ RoutedBook(lastCall.seen).asks.levels[1].price = "0.30"

\* the outcomes of ev that hold ask data on one of their sides
WithAskData(ev) ==
    {i \in 1..Len(ev.outcomes) :
        \/ ev.outcomes[i].yes.order_book.asks.levels /= <<>>
        \/ ev.outcomes[i].no.order_book.asks.levels /= <<>>}

\* C10 (as claimed): after an accepted update the evaluator is triggered if
\* and only if the owning event has at least two outcomes with ask data.
C10_EvaluatedIffTwoWithAsks ==
    (lastCall.kind = "update" /\ lastCall.processed) =>
        (lastCall.evaluated <=> Cardinality(WithAskData(OwningEvent)) >= 2)

\* C10 (amended): after an accepted update the evaluator is triggered if and
\* only if the owning event has at least two outcomes, whether or not they
\* hold ask data.
C10_EvaluatedIffTwoOutcomes ==
    (lastCall.kind = "update" /\ lastCall.processed) =>
        (lastCall.evaluated <=> Len(OwningEvent.outcomes) >= 2)

\* an evaluation of an event in which a single outcome holds ask data
C10_Witness ==
    /\ lastCall.kind = "update" /\ lastCall.processed /\ lastCall.evaluated
    /\ Cardinality(WithAskData(OwningEvent)) = 1

\* the order book that the index entry info names, in graph evs
BookAt(evs, info) ==
    LET o == evs[info[1]].outcomes[DictIdx(evs[info[1]].outcomes, info[2])]
    IN  IF info[3] = "yes" THEN o.yes.order_book ELSE o.no.order_book

\* the handler was called in this step
HandlerCalled == clock' = clock + 1

\* C35: OrderBook.update is all-or-nothing: when applying an update fails,
\* the bids, the asks and last_updated of the book are as before the call; no
\* reader finds the bids of the failed update with the asks of an earlier one.
C35_UpdateAllOrNothing ==
    [][(HandlerCalled /\ lastCall'.raised = "book") => events' = events]_vars

\* what a failed update does keep: the asks and last_updated of its book, and
\* every other book
FailedUpdateKeepsAsks ==
    [][(HandlerCalled /\ lastCall'.raised = "book") =>
          LET info == token_to_outcome[lastCall'.data.asset_id]
              b    == BookAt(events, info)
              a    == BookAt(events', info)
          IN  /\ a.asks = b.asks
              /\ a.last_updated = b.last_updated
              /\ \A t \in DOMAIN token_to_outcome :
                    token_to_outcome[t] /= info
                        => BookAt(events', token_to_outcome[t])
                               = BookAt(events, token_to_outcome[t])]_vars

\* the graph evs with the book that info names replaced by book
WithBookAt(evs, info, book) ==
    LET i == DictIdx(evs[info[1]].outcomes, info[2])
    IN  IF info[3] = "yes"
        THEN [evs EXCEPT ![info[1]].outcomes[i].yes.order_book = book]
        ELSE [evs EXCEPT ![info[1]].outcomes[i].no.order_book = book]

\* the step changed the book of the message's token and nothing else of the
\* graph, the index included
OnlyOwnBook ==
    /\ token_to_outcome' = token_to_outcome
    /\ LET t == lastCall'.data.asset_id
       IN  IF t \in DOMAIN token_to_outcome
           THEN events' = WithBookAt(events, token_to_outcome[t],
                                     BookAt(events', token_to_outcome[t]))
           ELSE events' = events

\* C36: an accepted book update for token t changes only the order book of
\* t's own outcome side: the opposite side of the outcome, every other
\* outcome and event, the event map and the token index are unchanged; and
\* handle_book_update returns True exactly when one book was updated.
C36_AcceptedUpdateFrame ==
    [][HandlerCalled =>
          /\ OnlyOwnBook
          /\ lastCall'.processed <=> events' /= events]_vars

\* the frame alone, and the return value for the calls that do not fail
FrameOfEveryCall ==
    [][HandlerCalled =>
          /\ OnlyOwnBook
          /\ lastCall'.processed => events' /= events
          /\ (events' /= events /\ lastCall'.raised /= "book") => lastCall'.processed]_vars

\* sides and books put in the place of a NO-side book or of a bid side:
\* with levels the evaluator would sum, report or fail on if it read them
AltLevels == {<<>>, <<L("0.01", "1")>>, <<L("0.40", "n/a")>>}

AltNoBooks ==
    {[bids |-> [OrderBookSide(TRUE) EXCEPT !.levels = b],
      asks |-> [OrderBookSide(FALSE) EXCEPT !.levels = a],
      last_updated |-> u] : b \in AltLevels, a \in AltLevels, u \in {NoneTime, 9}}

\* the events that differ from ev in the NO-side book of one outcome or in
\* the bid side of one YES-side book
OffDecisionVariants(ev) ==
    {[ev EXCEPT !.outcomes[i].no.order_book = nb] :
        i \in 1..Len(ev.outcomes), nb \in AltNoBooks}
    \cup {[ev EXCEPT !.outcomes[i].yes.order_book.bids.levels = b] :
        i \in 1..Len(ev.outcomes), b \in AltLevels}

\* C37: only YES-side asks enter the arbitrage decision: in every state the
\* decision, the sum and the contributor list of check_event on an event are
\* the same for every other NO-side book and every other bid side; and an
\* accepted update that changes only a NO-side book adds an opportunity
\* record exactly when the state before would produce one, with the same sum
\* and contributors.
C37_OnlyYesAsksDecide ==
    /\ [](\A e \in DOMAIN events :
            \A v \in OffDecisionVariants(events[e]) :
                CheckEvent(v, threshold, clock) = CheckEvent(events[e], threshold, clock))
    /\ [][(/\ HandlerCalled
           /\ lastCall'.processed
           /\ token_to_outcome[lastCall'.data.asset_id][3] = "no") =>
            LET e   == token_to_outcome[lastCall'.data.asset_id][1]
                pre == CheckEvent(events[e], threshold, clock')
            IN  IF lastCall'.evaluated
                THEN /\ lastCall'.reported = pre.reported
                     /\ (lastCall'.raised = "check") = pre.raised
                     /\ pre.reported =>
                           /\ Len(opportunities') = Len(opportunities) + 1
                           /\ opportunities'[Len(opportunities')] = pre.record
                     /\ ~pre.reported => opportunities' = opportunities
                ELSE opportunities' = opportunities]_vars

\* an accepted update of the NO side of the first outcome of event 1, with
\* asks of its own, after which the evaluator reports the YES asks
C37_Witness ==
    /\ lastCall.kind = "update" /\ lastCall.processed
    /\ lastCall.data.asset_id = "n1"
    /\ lastCall.data.asks /= <<>>
    /\ lastCall.evaluated /\ lastCall.reported
    /\ events["1"].outcomes[1].no.order_book.asks.levels /= <<>>
    /\ events["1"].outcomes[1].yes.order_book.asks.levels /= <<>>

(***************************************************************************)
(* SpecEval: Spec, with check_event also called directly, twice in a row,   *)
(* on an event of the graph as the book updates have left it.              *)
(***************************************************************************)
\* check_event that stamps the books it reads with the time of the call
CheckEventStamping(evs, e, thr, now) ==
    [events |-> [evs EXCEPT ![e].outcomes =
                    [i \in DOMAIN @ |->
                        IF @[i].yes.order_book.asks.levels = <<>> THEN @[i]
                        ELSE [@[i] EXCEPT !.yes.order_book.last_updated = now]]],
     result |-> CheckEvent(evs[e], thr, now)]

\* a call check_event(evs[e]): the graph after the call and what the call
\* returned.  check_event binds locals and reads event.outcomes; it assigns
\* to no attribute of the event, of an outcome, of a book or of the analyzer
CheckEventOn(evs, e, thr, now) ==
    [events |-> evs, result |-> CheckEvent(evs[e], thr, now)]

\* the opportunity log after a call that returned c
Logged(log, c) == IF c.reported THEN Append(log, c.record) ELSE log

\* check_event called twice in a row on event e
CheckTwice ==
    /\ clock < MaxUpdates
    /\ \E e \in DOMAIN events :
        \E c1 \in {CheckEventOn(events, e, threshold, clock + 1)} :
        \E c2 \in {CheckEventOn(c1.events, e, threshold, clock + 2)} :
            /\ events' = c2.events
            /\ opportunities' = Logged(Logged(opportunities, c1.result), c2.result)
            /\ clock' = clock + 2
            /\ lastCheck' = [kind |-> "checks", event_id |-> e,
                             first |-> c1.result, second |-> c2.result]
    /\ UNCHANGED <<token_to_outcome, threshold, loads, delivered, lastCall,
                   save_raw, raw_log, in_handler, sideVars, bootVars, streamVars, frameVars,
                   multiVars, chunkVars, connVars>>

NextEval == OnBook \/ CheckTwice

SpecEval == Init /\ [][NextEval]_vars

\* two calls reached the same decision, sum and contributor list
SameOutcome(a, b) ==
    /\ a.raised = b.raised
    /\ a.reported = b.reported
    /\ a.reported =>
          /\ a.record.cost_sum = b.record.cost_sum
          /\ a.record.outcomes = b.record.outcomes
          /\ a.record.threshold = b.record.threshold
          /\ a.record.event_id = b.record.event_id

MaxRawUpdates == 3     \* book-update messages delivered in one run

\* a routed update, one whose price is no number, one whose size is no
\* number, one for the event of a single outcome, one for a token of no
\* loaded event and one without asset_id
RawMessages ==
    { Msg("y1", <<>>, <<L("0.40", "10")>>),
      Msg("y2", <<>>, <<L("abc", "10")>>),
      Msg("y2", <<>>, <<L("0.40", "n/a")>>),
      Msg("y4", <<L("0.10", "5")>>, <<L("0.30", "5")>>),
      Msg("zz", <<L("0.10", "5")>>, <<L("0.30", "5")>>),
      Msg("", <<L("0.10", "5")>>, <<L("0.30", "5")>>) }

\* save_to_jsonl of poly_orderbook.py: the message with the key _received_at
\* added, appended as one line
SaveToJsonl(raw, data, now) == Append(raw, [data |-> data, received_at |-> now])

\* handle_book_update writing the raw line only for an update that was routed
AppHandleRawRouted(save, raw, evs, map, log, thr, data, now) ==
    LET r == AppHandle(evs, map, log, thr, data, now)
    IN  [raw_log |-> IF save /\ r.call.processed THEN SaveToJsonl(raw, data, now)
                     ELSE raw,
         handler |-> r]

\* PolyOrderBookApp.handle_book_update: with save_raw the raw line is written
\* first, then the update is routed and the event evaluated
AppHandleRaw(save, raw, evs, map, log, thr, data, now) ==
    [raw_log |-> IF save THEN SaveToJsonl(raw, data, now) ELSE raw,
     handler |-> AppHandle(evs, map, log, thr, data, now)]

InitRaw ==
    /\ SideIdle /\ ChunkIdle /\ ConnIdle /\ FrameIdle /\ MultiIdle /\ StreamIdle /\ BootIdle
    /\ LET m == LoadEvents(<<Def1, Def2>>, 2)
       IN  /\ events = m.events
           /\ token_to_outcome = m.token_to_outcome
    /\ loads = <<Def1, Def2>>
    /\ opportunities = <<>>
    /\ threshold = "0.99"
    /\ clock = 0
    /\ delivered = <<>>
    /\ lastCall = NoCall
    /\ save_raw \in BOOLEAN
    /\ raw_log = <<>>
    /\ lastCheck = NoCall
    /\ in_handler = <<>>

\* one book-update message reaches the handler; delivered records it with
\* its receipt time and whether the manager found its book (the update of
\* the book was completed, or it raised)
OnBookRaw ==
    /\ clock < MaxRawUpdates
    /\ \E data \in RawMessages :
        \E r \in {AppHandleRaw(save_raw, raw_log, events, token_to_outcome,
                               opportunities, threshold, data, clock + 1)} :
            /\ raw_log' = r.raw_log
            /\ events' = r.handler.events
            /\ opportunities' = r.handler.opportunities
            /\ lastCall' = r.handler.call
            /\ clock' = clock + 1
            /\ delivered' = Append(delivered,
                                   [data |-> data, at |-> clock + 1,
                                    routed |-> (r.handler.call.processed
                                                \/ r.handler.call.raised = "book")])
    /\ UNCHANGED <<token_to_outcome, threshold, loads, save_raw, lastCheck,
                   in_handler, sideVars, bootVars, streamVars, frameVars, multiVars,
                   chunkVars, connVars>>

SpecRaw == InitRaw /\ [][OnBookRaw]_vars

\* the message d was routed to an order book
WasRouted(d) == d.routed

\* the raw log is the list ds of messages, each with its receipt time
RawLogIs(ds) ==
    /\ Len(raw_log) = Len(ds)
    /\ \A k \in 1..Len(ds) :
          /\ raw_log[k].data = ds[k].data
          /\ raw_log[k].received_at = ds[k].at

\* C30 (as claimed): with raw logging enabled the raw log holds exactly one
\* entry, in order, for every book-update message that was routed to an order
\* book, and none for a message discarded as an unknown instrument.
C30_RawLogHoldsAccepted ==
    save_raw => RawLogIs(SelectSeq(delivered, WasRouted))

\* C30 (amended): with raw logging enabled the raw log is append-only and
\* holds exactly one entry, in arrival order, for every book-update message
\* handed to the handler, whether or not it is then routed to an order book:
\* the entry, the message as received plus a receipt timestamp, is written
\* before the lookup, so a message discarded as an unknown instrument and a
\* message whose handling fails have their entries too.  Without raw logging
\* the log stays empty.
C30_RawLogHoldsEveryUpdate ==
    [][/\ Len(raw_log') >= Len(raw_log)
       /\ SubSeq(raw_log', 1, Len(raw_log)) = raw_log
       /\ save_raw' => RawLogIs(delivered)'
       /\ ~save_raw' => raw_log' = <<>>]_vars

\* three entries, among them one for a token of no loaded event and one for
\* an update that was routed
C30_Witness ==
    /\ save_raw
    /\ Len(raw_log) = 3
    /\ \E k \in 1..3 : raw_log[k].data.asset_id = "zz" /\ ~delivered[k].routed
    /\ \E k \in 1..3 : raw_log[k].data.asset_id = "y1" /\ delivered[k].routed

(***************************************************************************)
(* SpecScenario: one loaded event of three outcomes, empty books,          *)
(* threshold 0.99; the handler receives the three best-ask updates of the  *)
(* end-to-end scenario, in any order and among other messages, and the     *)
(* messages delivered are recorded.                                        *)
(***************************************************************************)
Ask1 == Msg("y1", <<>>, <<L("0.40", "10")>>)
Ask2 == Msg("y2", <<>>, <<L("0.30", "10")>>)
Ask3 == Msg("y3", <<>>, <<L("0.20", "10")>>)

ScenarioMessages ==
    {Ask1, Ask2, Ask3,
     Msg("n1", <<L("0.10", "5")>>, <<L("0.40", "10")>>),
     Msg("zz", <<>>, <<L("0.30", "10")>>)}

MaxScenarioUpdates == 3

InitScenario ==
    /\ SideIdle /\ ChunkIdle /\ ConnIdle /\ FrameIdle /\ MultiIdle /\ StreamIdle /\ BootIdle /\ IngestIdle
    /\ LET m == LoadEvents(<<Def1>>, 1)
       IN  /\ events = m.events
           /\ token_to_outcome = m.token_to_outcome
    /\ loads = <<Def1>>
    /\ opportunities = <<>>
    /\ threshold = "0.99"
    /\ clock = 0
    /\ delivered = <<>>
    /\ lastCall = NoCall

OnScenarioBook == HandleBookUpdate(ScenarioMessages, MaxScenarioUpdates, TRUE)

SpecScenario == InitScenario /\ [][OnScenarioBook]_vars

\* exactly the three updates of the scenario have been delivered
ScenarioDelivered ==
    /\ Len(delivered) = 3
    /\ {delivered[i] : i \in 1..3} = {Ask1, Ask2, Ask3}

\* the record lists all three outcomes and the sum 0.90
ListsAllThree(r) ==
    /\ Len(r.outcomes) = 3
    /\ {r.outcomes[k].token_id : k \in 1..3} = {"y1", "y2", "y3"}
    /\ r.cost_sum = [coef |-> 90, exp |-> -2]

\* C7 (as claimed): after the three updates the opportunity log holds exactly
\* one record, which lists all three outcomes with sum 0.90.
C7_ExactlyOneRecord ==
    ScenarioDelivered =>
        /\ Len(opportunities) = 1
        /\ ListsAllThree(opportunities[1])

\* C7 (amended): after the three updates the opportunity log holds three
\* records, one appended by each update, with 1, 2 and 3 contributors; the
\* last one, and only it, lists all three outcomes with sum 0.90.
C7_OneRecordPerUpdate ==
    ScenarioDelivered =>
        /\ Len(opportunities) = 3
        /\ \A k \in 1..3 :
              /\ Len(opportunities[k].outcomes) = k
              /\ opportunities[k].timestamp = k
              /\ opportunities[k].threshold = "0.99"
        /\ ListsAllThree(opportunities[3])

\* the three updates delivered in the order of the outcomes
C7_Witness ==
    /\ delivered = <<Ask1, Ask2, Ask3>>
    /\ Len(opportunities) = 3
    /\ opportunities[1].cost_sum = [coef |-> 40, exp |-> -2]

(***************************************************************************)
(* SpecIndex: an OrderBookManager loading event definitions, one add_event *)
(* call at a time.  The definitions include a second definition of event 1  *)
(* with fewer outcomes, and two events with an outcome that names no NO     *)
(* token: from_outcome_json gives such a side the token "".                 *)
(***************************************************************************)
Def1Short == [event_id |-> 1, title |-> "E1",
              outcomes |-> <<OutcomeDef("o1", "m1", "y1", "n1")>>]
Def3 == [event_id |-> 3, title |-> "E3",
         outcomes |-> <<OutcomeDef("o5", "m5", "y5", "")>>]
Def4 == [event_id |-> 4, title |-> "E4",
         outcomes |-> <<OutcomeDef("o6", "m6", "y6", "n6"),
                        OutcomeDef("o7", "m7", "y7", "")>>]

EventDefs == {Def1, Def1Short, Def2, Def3, Def4}

MaxLoads == 3

InitIndex ==
    /\ SideIdle /\ ChunkIdle /\ ConnIdle /\ FrameIdle /\ MultiIdle /\ StreamIdle /\ BootIdle /\ IngestIdle
    /\ events = <<>>
    /\ token_to_outcome = <<>>
    /\ loads = <<>>
    /\ opportunities = <<>>
    /\ threshold = "0.99"
    /\ clock = 0
    /\ delivered = <<>>
    /\ lastCall = NoCall

\* a call add_event(ed)
LoadEvent ==
    /\ Len(loads) < MaxLoads
    /\ \E ed \in EventDefs :
        \E m \in {AddEvent(events, token_to_outcome, ed)} :
            /\ events' = m.events
            /\ token_to_outcome' = m.token_to_outcome
            /\ loads' = Append(loads, ed)
            /\ lastCall' = [kind |-> "load", data |-> ed, before |-> token_to_outcome]
    /\ UNCHANGED <<opportunities, threshold, clock, delivered,
                   sideVars, bootVars, ingestVars, streamVars, frameVars, multiVars, chunkVars, connVars>>

SpecIndex == InitIndex /\ [][LoadEvent]_vars

\* the tokens an event definition registers
TokensOf(ed) ==
    {ed.outcomes[i].yes : i \in 1..Len(ed.outcomes)}
    \cup {ed.outcomes[i].no : i \in 1..Len(ed.outcomes)}

\* the tuples an event definition registers for token t
TuplesOf(ed, t) ==
    {<<StrOfId(ed.event_id), ed.outcomes[i].market_id, "yes">> :
        i \in {j \in 1..Len(ed.outcomes) : ed.outcomes[j].yes = t}}
    \cup {<<StrOfId(ed.event_id), ed.outcomes[i].market_id, "no">> :
        i \in {j \in 1..Len(ed.outcomes) : ed.outcomes[j].no = t}}

\* every identifier registered by a load resolves, to a tuple that a load
\* registered for it
AllResolve ==
    \A k \in 1..Len(loads) : \A t \in TokensOf(loads[k]) :
        /\ t \in DOMAIN token_to_outcome
        /\ \E j \in 1..Len(loads) : token_to_outcome[t] \in TuplesOf(loads[j], t)

\* C5 (as claimed): every identifier registered by a load resolves to one
\* tuple, and a load of event E leaves the mapping of every identifier that
\* was registered for a different event unchanged.
C5_OtherEventsUnchanged ==
    /\ AllResolve
    /\ lastCall.kind = "load" =>
          \A t \in DOMAIN lastCall.before :
              lastCall.before[t][1] /= StrOfId(lastCall.data.event_id)
                  => token_to_outcome[t] = lastCall.before[t]

\* C5 (amended): every identifier registered by a load resolves to one tuple,
\* and a load of event E leaves the mapping of every identifier that E does
\* not itself register unchanged; an identifier E registers resolves to E.
C5_UnregisteredUnchanged ==
    /\ AllResolve
    /\ lastCall.kind = "load" =>
          /\ \A t \in DOMAIN lastCall.before :
                t \notin TokensOf(lastCall.data)
                    => /\ t \in DOMAIN token_to_outcome
                       /\ token_to_outcome[t] = lastCall.before[t]
          /\ \A t \in TokensOf(lastCall.data) :
                token_to_outcome[t] \in TuplesOf(lastCall.data, t)

\* event 1 loaded again after another event, whose tokens resolve as before
C5_Witness ==
    /\ Len(loads) = 3
    /\ loads[1].event_id = 1 /\ loads[2].event_id = 2 /\ loads[3].event_id = 1
    /\ token_to_outcome["y4"] = <<"2", "m4", "yes">>
    /\ token_to_outcome["y1"] = <<"1", "m1", "yes">>

(***************************************************************************)
(* SpecLoad: OrderBookManager.load_events_from_file on a file of entries.  *)
(* An entry is a JSON object (an event definition), a JSON value that is   *)
(* not an object, or a line that is not JSON (in a line-delimited file).   *)
(* An object may carry a token id that is a JSON array: a Python list,     *)
(* which a dict does not take as a key.                                    *)
(***************************************************************************)
MaxEntries == 3      \* entries of one event file

\* token ids written as a JSON array
UnhashableTokens == {"[y8]"}

Def5 == [event_id |-> 3, title |-> "E5",
         outcomes |-> <<OutcomeDef("o5", "m5", "y5", "n5"),
                        OutcomeDef("o8", "m8", "[y8]", "n8")>>]

NoDef == [event_id |-> 0, title |-> "", outcomes |-> <<>>]

Entry(kind, def) == [kind |-> kind, def |-> def]

\* entries of a file holding one JSON array
ArrayEntries ==
    {Entry("object", d) : d \in {Def1, Def1Short, Def2, Def5}}
    \cup {Entry("scalar", NoDef)}

\* entries (lines) of a line-delimited file
LineEntries == ArrayEntries \cup {Entry("text", NoDef)}

EventFiles ==
    {[format |-> "array", entries |-> s] : s \in SeqsUpTo(ArrayEntries, MaxEntries)}
    \cup {[format |-> "jsonl", entries |-> s] :
             s \in {t \in SeqsUpTo(LineEntries, MaxEntries) :
                       \* one JSON document alone is read by the first parse
                       Len(t) >= 2 \/ (Len(t) = 1 /\ t[1].kind = "text")}}

\* the first outcome of the event with a token id that cannot be a key, or 0
FirstUnhashable(event) ==
    LET bad == {i \in 1..Len(event.outcomes) :
                   \/ event.outcomes[i].yes.token_id \in UnhashableTokens
                   \/ event.outcomes[i].no.token_id \in UnhashableTokens}
    IN  IF bad = {} THEN 0 ELSE CHOOSE i \in bad : \A j \in bad : i <= j

\* TokenMapper.add_event: [raised, token_to_outcome].  The assignments run
\* outcome by outcome, YES before NO, until one raises TypeError.
MapperAddEvent(map, event) ==
    LET k == FirstUnhashable(event)
    IN  IF k = 0
        THEN [raised |-> FALSE,
              token_to_outcome |-> MapperAdd(map, event, Len(event.outcomes))]
        ELSE LET m == MapperAdd(map, event, k - 1)
                 o == event.outcomes[k]
             IN  [raised |-> TRUE,
                  token_to_outcome |->
                     IF o.yes.token_id \in UnhashableTokens THEN m
                     ELSE Assign(m, o.yes.token_id,
                                 <<StrOfId(event.event_id), o.market_id, "yes">>)]

\* json.loads of a line followed by add_event, or add_event on an item of the
\* array: [raised, events, token_to_outcome].  A line that is not JSON raises
\* in json.loads, a value that is not an object raises in from_event_json
\* (it has no get), both before the manager is touched; the event is stored
\* in the event map before the token index is filled.
AddEntry(evs, map, entry) ==
    IF entry.kind /= "object"
    THEN [raised |-> TRUE, events |-> evs, token_to_outcome |-> map]
    ELSE LET event == Event(entry.def)
             r     == MapperAddEvent(map, event)
         IN  [raised |-> r.raised,
              events |-> Assign(evs, StrOfId(event.event_id), event),
              token_to_outcome |-> r.token_to_outcome]

\* load_events_from_file over the first n entries:
\* [events, token_to_outcome, events_added]
RECURSIVE LoadEventsFromFile(_, _)
LoadEventsFromFile(entries, n) ==
    IF n = 0 THEN [events |-> <<>>, token_to_outcome |-> <<>>, events_added |-> <<>>]
    ELSE LET m == LoadEventsFromFile(entries, n - 1)
             r == AddEntry(m.events, m.token_to_outcome, entries[n])
         IN  [events |-> r.events, token_to_outcome |-> r.token_to_outcome,
              events_added |-> IF r.raised THEN m.events_added
                               ELSE Append(m.events_added, Event(entries[n].def))]

InitLoad ==
    /\ SideIdle /\ ChunkIdle /\ ConnIdle /\ FrameIdle /\ MultiIdle /\ StreamIdle /\ BootIdle /\ IngestIdle
    /\ MarketIdle

\* a call load_events_from_file(file_path) on a new manager
LoadFile ==
    /\ lastCall.kind = "none"
    /\ \E f \in EventFiles :
        \E r \in {LoadEventsFromFile(f.entries, Len(f.entries))} :
            /\ events' = r.events
            /\ token_to_outcome' = r.token_to_outcome
            /\ loads' = [i \in 1..Len(r.events_added) |-> r.events_added[i].event_id]
            /\ lastCall' = [kind |-> "file", file |-> f, events_added |-> r.events_added]
    /\ UNCHANGED <<opportunities, threshold, clock, delivered,
                   sideVars, bootVars, ingestVars, streamVars, frameVars, multiVars, chunkVars, connVars>>

SpecLoad == InitLoad /\ [][LoadFile]_vars

\* an entry that add_event takes without raising
WellFormed(entry) ==
    /\ entry.kind = "object"
    /\ FirstUnhashable(Event(entry.def)) = 0

\* the definitions of the well-formed entries, in file order
WellFormedDefs(entries) ==
    LET good == SelectSeq(entries, WellFormed)
    IN  [i \in 1..Len(good) |-> good[i].def]

\* the manager and the returned list are those of a load of the well-formed
\* entries alone
SkippedCleanly ==
    LET good == WellFormedDefs(lastCall.file.entries)
        m    == LoadEvents(good, Len(good))
    IN  /\ events = m.events
        /\ token_to_outcome = m.token_to_outcome
        /\ lastCall.events_added = [i \in 1..Len(good) |-> Event(good[i])]

\* C31: when a file of event definitions is loaded, a malformed entry is
\* skipped without stopping the load: every well-formed entry before and
\* after it is loaded, the returned list holds exactly the loaded events, and
\* the skipped entry adds nothing to the event map or to the token index.
C31_MalformedSkipped == lastCall.kind = "file" => SkippedCleanly

\* the same, for the files whose malformed entries are rejected before the
\* manager is touched (lines that are not JSON, values that are not objects)
SkippedWhenRejectedEarly ==
    (/\ lastCall.kind = "file"
     /\ \A i \in 1..Len(lastCall.file.entries) :
            lastCall.file.entries[i].kind = "object"
                => WellFormed(lastCall.file.entries[i]))
        => SkippedCleanly

\* a load with a well-formed entry on each side of a rejected one
RejectedBetweenLoaded ==
    /\ lastCall.kind = "file"
    /\ Len(lastCall.file.entries) = 3
    /\ WellFormed(lastCall.file.entries[1])
    /\ lastCall.file.entries[2].kind = "scalar"
    /\ WellFormed(lastCall.file.entries[3])
    /\ Len(lastCall.events_added) = 2

(***************************************************************************)
(* SpecChunk: PolyOrderBookApp.start choosing between one PolyWebSocket    *)
(* and a MultiPolyWebSocket for the token ids of the manager, which are     *)
(* the keys of a dict and so distinct.  Token ids are numbered.             *)
(***************************************************************************)
MaxTokens == 4      \* token ids of the manager
MaxChunk  == 5      \* max_websocket_connections

DEFAULT_CHUNK_SIZE == 450

\* range(0, n, step), as a sequence
Range0(n, step) ==
    [k \in 1..Cardinality({i \in 0..(n - 1) : i % step = 0}) |-> (k - 1) * step]

\* asset_ids[i:i + size], with i counted from 0
Slice(ids, i, size) == SubSeq(ids, i + 1, MinInt(i + size, Len(ids)))

\* _chunk_asset_ids without the last, partial chunk
ChunkAssetIdsFull(ids, size) ==
    [k \in 1..(Len(ids) \div size) |-> Slice(ids, (k - 1) * size, size)]

\* MultiPolyWebSocket._chunk_asset_ids
ChunkAssetIds(ids, size) ==
    LET starts == Range0(Len(ids), size)
    IN  [k \in 1..Len(starts) |-> Slice(ids, starts[k], size)]

\* the lists of distinct token ids out of 1..n
DistinctSeqs(n) ==
    {s \in SeqsUpTo(1..n, n) : \A i, j \in 1..Len(s) : i /= j => s[i] /= s[j]}

\* 1000 token ids, for the default chunk size
ThousandIds == [i \in 1..1000 |-> i]

InitChunk ==
    /\ SideIdle /\ MarketIdle /\ ConnIdle /\ FrameIdle /\ MultiIdle /\ StreamIdle /\ BootIdle /\ IngestIdle
    /\ \/ /\ asset_ids \in DistinctSeqs(MaxTokens) \ {<<>>}
          /\ chunk_size \in 1..MaxChunk
       \/ /\ asset_ids = ThousandIds
          /\ chunk_size = DEFAULT_CHUNK_SIZE
    /\ clients = <<>>
    /\ path = "none"

\* start, more token ids than max_websocket_connections: a MultiPolyWebSocket,
\* whose __init__ creates one PolyWebSocket per chunk
StartSharded ==
    /\ path = "none"
    /\ Len(asset_ids) > chunk_size
    /\ clients' = ChunkAssetIds(asset_ids, chunk_size)
    /\ path' = "multi"
    /\ UNCHANGED <<asset_ids, chunk_size, sideVars, bootVars, ingestVars, streamVars, frameVars, multiVars, marketVars, connVars>>

\* start, otherwise: one PolyWebSocket for all token ids
StartSingle ==
    /\ path = "none"
    /\ asset_ids /= <<>>
    /\ ~(Len(asset_ids) > chunk_size)
    /\ clients' = <<asset_ids>>
    /\ path' = "single"
    /\ UNCHANGED <<asset_ids, chunk_size, sideVars, bootVars, ingestVars, streamVars, frameVars, multiVars, marketVars, connVars>>

NextChunk == StartSharded \/ StartSingle

SpecChunk == InitChunk /\ [][NextChunk]_vars

\* ceil(t / c)
Ceil(t, c) == CHOOSE n \in 0..t : n * c >= t /\ (n - 1) * c < t

\* the chunks one after the other
RECURSIVE Concat(_, _)
Concat(cs, n) == IF n = 0 THEN <<>> ELSE Concat(cs, n - 1) \o cs[n]

\* C3: once start has created the Stream Connections for T > 0 distinct token
\* ids and cap C >= 1, there are exactly ceil(T/C) of them, the chunks one
\* after the other are the input list (every id in exactly one connection,
\* contiguous in input order), no connection has more than C ids, on the
\* single-connection path as on the sharded path; 1000 ids with cap 450 give
\* chunks of 450, 450 and 100.
C3_ShardsPartitionIds ==
    path /= "none" =>
        /\ Len(clients) = Ceil(Len(asset_ids), chunk_size)
        /\ Concat(clients, Len(clients)) = asset_ids
        /\ \A k \in 1..Len(clients) : Len(clients[k]) <= chunk_size
        /\ (path = "single") <=> (Len(asset_ids) <= chunk_size)
        /\ (Len(asset_ids) = 1000 /\ chunk_size = 450) =>
              <<Len(clients[1]), Len(clients[2]), Len(clients[3])>> = <<450, 450, 100>>

\* the sharded path with a last chunk shorter than the cap
C3_Witness ==
    /\ path = "multi"
    /\ Len(clients) = 3
    /\ Len(clients[3]) < chunk_size
    /\ Len(clients[1]) = chunk_size

(***************************************************************************)
(* SpecBoot: PolyOrderBookApp from its construction on an event file, with  *)
(* or without an event-id filter, to start and the first book updates.     *)
(* The file holds well-formed definitions; an event id may occur twice, a   *)
(* side may lack its token, an event may have no outcomes.                  *)
(*   appPc = "idle"      constructed, start not called                      *)
(*           "starting"  start awaits self.websocket_client.start()         *)
(*           "returned"  start returned for want of token ids               *)
(*           "rejected"  a start call returned at 'already running'         *)
(***************************************************************************)
MaxBootEntries == 2     \* event definitions of the file
MaxBootUpdates == 1     \* book updates received after start

Def2Empty == [event_id |-> 2, title |-> "E2", outcomes |-> <<>>]

BootDefs == {Def1, Def1Short, Def2, Def2Empty, Def3, Def4}

BootFiles == SeqsUpTo(BootDefs, MaxBootEntries) \ {<<>>}

\* the --event-id option; "" when it is not given
Filters == {"", "1", "2", "3", "4"}

\* the token ids a definition registers, in the order of TokenMapper.add_event
TokenSeqOf(ed) ==
    [k \in 1..(2 * Len(ed.outcomes)) |->
        IF k % 2 = 1 THEN ed.outcomes[(k + 1) \div 2].yes
                     ELSE ed.outcomes[k \div 2].no]

\* keys assigned to a dict whose keys are ks: a new key goes to the end, a
\* key it has keeps its place
RECURSIVE AssignKeys(_, _, _)
AssignKeys(ks, ts, n) ==
    IF n = 0 THEN ks
    ELSE LET r == AssignKeys(ks, ts, n - 1)
         IN  IF \E i \in 1..Len(r) : r[i] = ts[n] THEN r ELSE Append(r, ts[n])

\* token_to_outcome.keys() after the first n definitions were added
RECURSIVE TokenKeys(_, _)
TokenKeys(eds, n) ==
    IF n = 0 THEN <<>>
    ELSE AssignKeys(TokenKeys(eds, n - 1), TokenSeqOf(eds[n]),
                    Len(TokenSeqOf(eds[n])))

\* get_token_ids_for_event without the comparison of the event id
GetTokenIdsOfAllEvents(map, keys, event_id) == keys

\* OrderBookManager.get_token_ids_for_event
GetTokenIdsForEvent(map, keys, event_id) ==
    SelectSeq(keys, LAMBDA t : map[t][1] = event_id)

\* the filter of the constructor that keeps every loaded event
FilterEventsKeepAll(evs, flt) == evs

\* PolyOrderBookApp.__init__, the filter: the event map is replaced by one
\* that holds the filtered event alone
FilterEvents(evs, flt) ==
    IF flt = "" THEN evs ELSE Assign(<<>>, flt, evs[flt])

\* the constructor does not exit: events were loaded and, with a filter, one
\* of them has the id
Constructs(f, flt) ==
    /\ f /= <<>>
    /\ flt /= "" => \E i \in 1..Len(f) : StrOfId(f[i].event_id) = flt

InitBoot ==
    /\ SideIdle /\ ConnIdle /\ FrameIdle /\ StreamIdle /\ IngestIdle
    /\ \E f \in BootFiles, flt \in Filters :
          /\ Constructs(f, flt)
          /\ loads = f
          /\ event_id_filter = flt
          /\ events = FilterEvents(LoadEvents(f, Len(f)).events, flt)
          /\ token_to_outcome = LoadEvents(f, Len(f)).token_to_outcome
    /\ printer = "none"
    /\ opportunities = <<>>
    /\ threshold = "0.99"
    /\ clock = 0
    /\ delivered = <<>>
    /\ lastCall = NoCall
    /\ asset_ids = <<>>
    /\ chunk_size = 4
    /\ clients = <<>>
    /\ path = "none"
    /\ shard = <<>>
    /\ appPc = "idle"
    /\ appRunning = FALSE
    /\ stopPc = "none"
    /\ shardDelivered = <<>>
    /\ ticks = 0

bootRest == <<sideVars, ingestVars, streamVars, connVars, frameVars,
              event_id_filter, chunk_size, shard, stopPc, shardDelivered, ticks>>

\* PolyOrderBookApp.start, called on the constructed application or again
\* after it returned, up to its return or to
\* 'await self.websocket_client.start()'
BootStart ==
    /\ appPc \in {"idle", "returned"}
    /\ IF appRunning
       THEN /\ appPc' = "rejected"
            /\ UNCHANGED <<appRunning, asset_ids, printer, clients, path>>
       ELSE LET keys == TokenKeys(loads, Len(loads))
                token_ids == IF event_id_filter /= ""
                             THEN GetTokenIdsForEvent(token_to_outcome, keys,
                                                      event_id_filter)
                             ELSE keys
            IN  /\ appRunning' = TRUE
                /\ asset_ids' = token_ids
                /\ IF token_ids = <<>>
                   THEN /\ appPc' = "returned"
                        /\ UNCHANGED <<printer, clients, path>>
                   ELSE /\ printer' = "started"
                        /\ clients' = IF Len(token_ids) > chunk_size
                                      THEN ChunkAssetIds(token_ids, chunk_size)
                                      ELSE <<token_ids>>
                        /\ path' = IF Len(token_ids) > chunk_size
                                   THEN "multi" ELSE "single"
                        /\ appPc' = "starting"
    /\ UNCHANGED <<marketVars, bootRest>>

\* the book updates the server sends: one for each subscribed token
BootMessages ==
    {Msg(asset_ids[i], <<>>, <<L("0.40", "10")>>) : i \in 1..Len(asset_ids)}

\* a connection hands a book update to the handler
OnBootBook ==
    /\ appPc = "starting"
    /\ HandleBookUpdate(BootMessages, MaxBootUpdates, FALSE)

NextBoot == BootStart \/ OnBootBook

SpecBoot == InitBoot /\ [][NextBoot]_vars

\* the elements of a sequence
Range(s) == {s[i] : i \in 1..Len(s)}

\* the YES and NO token ids of an event of the graph
EventTokens(ev) ==
    {ev.outcomes[i].yes.token_id : i \in 1..Len(ev.outcomes)}
    \cup {ev.outcomes[i].no.token_id : i \in 1..Len(ev.outcomes)}

\* the last definition of the file that registers token t
LastLoadOf(t) ==
    loads[CHOOSE k \in 1..Len(loads) :
              /\ t \in TokensOf(loads[k])
              /\ \A j \in (k + 1)..Len(loads) : t \notin TokensOf(loads[j])]

\* start has determined the token ids to subscribe to
Started == appPc \in {"starting", "returned"}

\* C32 (as claimed): with an event-id filter, the token ids subscribed at
\* start are the YES and NO tokens of the filtered event: all of them, and no
\* other token.
C32_FilterSubscribesEventTokens ==
    (Started /\ event_id_filter /= "")
        => Range(asset_ids) = EventTokens(events[event_id_filter])

\* C32 (amended): with an event-id filter, the token ids subscribed at start
\* are the tokens the index maps to the filtered event id, each once: the
\* tokens whose last registration in the file is by a definition with that
\* id.  When no two definitions of the file share an event id or a token,
\* these are the YES and NO tokens of the filtered event, and no token of
\* another event.
C32_FilterSubscribesLastRegistered ==
    (Started /\ event_id_filter /= "") =>
        /\ Range(asset_ids) =
              {t \in UNION {TokensOf(loads[k]) : k \in 1..Len(loads)} :
                  StrOfId(LastLoadOf(t).event_id) = event_id_filter}
        /\ \A i, j \in 1..Len(asset_ids) : i /= j => asset_ids[i] /= asset_ids[j]
        /\ (\A j, k \in 1..Len(loads) :
                j /= k => /\ loads[j].event_id /= loads[k].event_id
                          /\ TokensOf(loads[j]) \cap TokensOf(loads[k]) = {})
              => /\ Range(asset_ids) = EventTokens(events[event_id_filter])
                 /\ \A k \in 1..Len(loads) :
                       StrOfId(loads[k].event_id) /= event_id_filter
                           => Range(asset_ids) \cap TokensOf(loads[k]) = {}

\* two events with tokens of their own, the filter on the second: its two
\* tokens are subscribed and the six of the first are not
C32_Witness ==
    /\ appPc = "starting"
    /\ loads = <<Def1, Def2>>
    /\ event_id_filter = "2"
    /\ asset_ids = <<"y4", "n4">>
    /\ clients = <<asset_ids>>

\* the event and the outcome that the index entry of token t names are in the
\* event map
Present(t) ==
    LET info == token_to_outcome[t]
    IN  /\ info[1] \in DOMAIN events
        /\ DictHas(events[info[1]].outcomes, info[2])

\* C34 (as claimed): after the loads, the re-loads and the filter of the
\* constructor, every entry of the token index names an event of the event
\* map and an outcome of that event.
C34_IndexRefersToGraph == \A t \in DOMAIN token_to_outcome : Present(t)

\* by the file and the filter: the event id of the index entry of t is not
\* filtered out, and the last definition of that id has the entry's outcome
Tracked(t) ==
    LET info == token_to_outcome[t]
        ks   == {k \in 1..Len(loads) : StrOfId(loads[k].event_id) = info[1]}
    IN  /\ ks /= {}
        /\ event_id_filter \in {"", info[1]}
        /\ LET last == loads[CHOOSE k \in ks : \A j \in ks : j <= k]
           IN  \E i \in 1..Len(last.outcomes) : last.outcomes[i].market_id = info[2]

\* C34 (amended): an index entry names an event and an outcome of the event
\* map exactly when its event id passes the filter and the last loaded
\* definition of that id has the outcome; a book update for an indexed,
\* non-empty token with such an entry is applied, and one for any other
\* indexed token is rejected and changes no book.
C34_IndexedAppliedWhenTracked ==
    /\ [](\A t \in DOMAIN token_to_outcome : Present(t) <=> Tracked(t))
    /\ [][clock' = clock + 1 =>
            LET t == lastCall'.data.asset_id
            IN  t \in DOMAIN token_to_outcome =>
                   /\ lastCall'.processed <=> (t /= "" /\ Tracked(t))
                   /\ ~lastCall'.processed => events' = events]_vars

\* event 1 loaded with three outcomes and again with one: the update for the
\* YES token of the second outcome is rejected, the one for the first applied
C34_Witness ==
    /\ loads = <<Def1, Def1Short>>
    /\ lastCall.kind = "update"
    /\ lastCall.data.asset_id = "y2"
    /\ "y2" \in DOMAIN token_to_outcome
    /\ ~lastCall.processed

\* C38: when start finds no token ids to subscribe to, it returns with the
\* application not running: running is false, no printer thread and no
\* connection was started, and a later start call is not rejected as already
\* running.
C38_NoTokensLeavesStopped ==
    /\ appPc = "returned" =>
          /\ ~appRunning
          /\ printer = "none"
          /\ clients = <<>>
    /\ appPc /= "rejected"

\* what start leaves alone when it finds no token ids
NoTokensStartsNothing ==
    appPc \in {"returned", "rejected"} =>
        /\ asset_ids = <<>>
        /\ printer = "none"
        /\ clients = <<>>
        /\ path = "none"

(***************************************************************************)
(* SpecConn: one PolyWebSocket: start, the reconnect loop of _connect and   *)
(* stop.  The coroutine is followed from one await to the next.             *)
(*   pc = "connecting"  awaiting websockets.connect                         *)
(*        "open"        connected, awaiting the send of the subscription    *)
(*        "reading"     in the message loop                                 *)
(*        "sleeping"    in an except branch, awaiting asyncio.sleep         *)
(*        "done"        _connect has returned                               *)
(***************************************************************************)
MaxSleeps == 7      \* sleeps of the reconnect loop in one run
MaxOrphans == 1     \* keepalive tasks left without a name in one run

max_reconnect_delay == 30

\* the delay after a sleep, without the maximum
NextDelayUncapped(d) == d * 2

\* min(self.reconnect_delay * 2, self.max_reconnect_delay)
NextDelay(d) == MinInt(d * 2, max_reconnect_delay)

\* the PolyWebSocket as the single-connection path of the application creates
\* it: one client holding every token id of the loaded events
ClientCreated ==
    /\ asset_ids = TokenIdsOf(<<Def1, Def2>>)
    /\ chunk_size = DEFAULT_CHUNK_SIZE
    /\ clients = <<asset_ids>>
    /\ path = "single"

\* self.asset_ids of the PolyWebSocket
self_asset_ids == IF clients = <<>> THEN <<>> ELSE clients[1]

\* _build_subscription_message
BuildSubscriptionMessage == [type |-> "MARKET", assets_ids |-> self_asset_ids]

InitConn ==
    /\ SideIdle /\ MarketIdle /\ FrameIdle /\ MultiIdle /\ StreamIdle /\ BootIdle /\ IngestIdle
    /\ ClientCreated
    /\ running = FALSE
    /\ websocket = "none"
    /\ reconnect_delay = 1
    /\ ping_task = "none"
    /\ pc = "idle"
    /\ slept = <<>>
    /\ failures = 0
    /\ attemptFails = 0
    /\ lastFail = "none"

\* what the steps of the connection leave alone
connRest == <<sideVars, bootVars, ingestVars, frameVars, multiVars, marketVars, chunkVars, arrivals,
              handled, ping_event, stops, conn_call>>

\* start(): it raises without asset ids; running is set and _connect entered;
\* a second start is taken only after the earlier _connect has returned
ConnStart ==
    /\ ~running
    /\ self_asset_ids /= <<>>
    /\ pc \in {"idle", "done"}
    /\ running' = TRUE
    /\ pc' = "connecting"
    /\ UNCHANGED <<websocket, reconnect_delay, ping_task, slept, failures,
                   attemptFails, lastFail, sent, inbox, frame_failed, keepalive,
                   orphans, connRest>>

\* websockets.connect succeeds, the delay kept as it is
ConnectOkKeepDelay ==
    /\ pc = "connecting"
    /\ websocket' = "open"
    /\ ping_task' = IF running THEN "live" ELSE "done"
    /\ keepalive' = IF running THEN "due" ELSE "none"
    /\ sent' = <<>>
    /\ inbox' = <<>>
    /\ frame_failed' = FALSE
    /\ pc' = "open"
    /\ failures' = 0
    /\ attemptFails' = 0
    /\ orphans' = orphans
    /\ UNCHANGED <<running, reconnect_delay, slept, lastFail, connRest>>

\* websockets.connect succeeds: a new socket, on which nothing was sent or
\* received; the delay is reset, the keepalive task created; _keepalive loops
\* while self.running and so returns at once after a stop.  ping_task is
\* assigned whatever it named: a task it named that is still live (the
\* message loop ended without an exception, so no _cleanup ran) runs on
\* without a name.
ConnectOk ==
    /\ pc = "connecting"
    /\ ping_task = "live" => orphans < MaxOrphans
    /\ orphans' = IF ping_task = "live" THEN orphans + 1 ELSE orphans
    /\ websocket' = "open"
    /\ reconnect_delay' = 1
    /\ ping_task' = IF running THEN "live" ELSE "done"
    /\ keepalive' = IF running THEN "due" ELSE "none"
    /\ sent' = <<>>
    /\ inbox' = <<>>
    /\ frame_failed' = FALSE
    /\ pc' = "open"
    /\ failures' = 0
    /\ attemptFails' = 0
    /\ UNCHANGED <<running, slept, lastFail, connRest>>

\* an except branch up to its sleep: _cleanup cancels the keepalive task and
\* closes the socket, then asyncio.sleep(reconnect_delay)
ToSleep ==
    /\ Len(slept) < MaxSleeps
    /\ ping_task' = "none"
    /\ keepalive' = "none"
    /\ websocket' = "none"
    /\ inbox' = <<>>
    /\ slept' = Append(slept, reconnect_delay)
    /\ failures' = failures + 1
    /\ pc' = "sleeping"
    /\ UNCHANGED <<running, reconnect_delay, sent, frame_failed, orphans, connRest>>

\* websockets.connect raises
ConnectFail ==
    /\ pc = "connecting"
    /\ ToSleep
    /\ attemptFails' = attemptFails + 1
    /\ lastFail' = "connect"

\* the send of the subscription raises
SendFail ==
    /\ pc = "open"
    /\ ToSleep
    /\ lastFail' = "send"
    /\ UNCHANGED attemptFails

\* the subscription sent on the first connection only
SendOkFirstOnly ==
    /\ pc = "open"
    /\ sent' = IF slept = <<>> THEN Append(sent, BuildSubscriptionMessage) ELSE sent
    /\ pc' = "reading"
    /\ UNCHANGED <<running, websocket, reconnect_delay, ping_task, slept, failures,
                   attemptFails, lastFail, inbox, frame_failed, keepalive, orphans, connRest>>

\* the subscription is built and sent
SendOk ==
    /\ pc = "open"
    /\ sent' = Append(sent, BuildSubscriptionMessage)
    /\ pc' = "reading"
    /\ UNCHANGED <<running, websocket, reconnect_delay, ping_task, slept, failures,
                   attemptFails, lastFail, inbox, frame_failed, keepalive, orphans, connRest>>

\* the message loop raises ConnectionClosed
ConnLost ==
    /\ pc = "reading"
    /\ ToSleep
    /\ lastFail' = "lost"
    /\ UNCHANGED attemptFails

\* the message loop ends without an exception (the connection closed
\* normally, or a message arrived after stop): back to the while test, with
\* no cleanup and no sleep
LoopEnds ==
    /\ pc = "reading"
    /\ pc' = IF running THEN "connecting" ELSE "done"
    /\ websocket' = IF websocket = "open" THEN "closed" ELSE websocket
    /\ inbox' = <<>>
    /\ UNCHANGED <<running, reconnect_delay, ping_task, slept, failures,
                   attemptFails, lastFail, sent, frame_failed, keepalive, orphans, connRest>>

\* the sleep returns, and the loop is left once the delay is at the maximum
WakeUpGiveUp ==
    /\ pc = "sleeping"
    /\ reconnect_delay' = NextDelay(reconnect_delay)
    /\ pc' = IF running /\ reconnect_delay < max_reconnect_delay
             THEN "connecting" ELSE "done"
    /\ UNCHANGED <<running, websocket, ping_task, slept, failures, attemptFails,
                   lastFail, sent, inbox, frame_failed, keepalive, orphans, connRest>>

\* the sleep returns: the delay is doubled up to the maximum, then the while test
WakeUp ==
    /\ pc = "sleeping"
    /\ reconnect_delay' = NextDelay(reconnect_delay)
    /\ pc' = IF running THEN "connecting" ELSE "done"
    /\ UNCHANGED <<running, websocket, ping_task, slept, failures, attemptFails,
                   lastFail, sent, inbox, frame_failed, keepalive, orphans, connRest>>

\* stop(), from another task while _connect is at an await: running is
\* cleared, _cleanup cancels the keepalive task and closes the socket
ConnStop ==
    /\ running
    /\ running' = FALSE
    /\ ping_task' = "none"
    /\ keepalive' = "none"
    /\ websocket' = "none"
    /\ inbox' = <<>>
    /\ UNCHANGED <<reconnect_delay, pc, slept, failures, attemptFails,
                   lastFail, sent, frame_failed, orphans, connRest>>

\* a keepalive task that ping_task no longer names wakes from its sleep
\* after stop: 'while self.running' ends it.  While the connection runs it
\* pings the socket of the moment and sleeps again.
OrphanEnds ==
    /\ orphans > 0
    /\ ~running
    /\ orphans' = orphans - 1
    /\ UNCHANGED <<connVars, sent, inbox, frame_failed, keepalive, connRest>>

NextConn ==
    \/ ConnStart \/ ConnectOk \/ ConnectFail \/ SendFail \/ SendOk
    \/ ConnLost \/ LoopEnds \/ WakeUp \/ ConnStop \/ OrphanEnds

SpecConn == InitConn /\ [][NextConn]_vars

RECURSIVE Pow2(_)
Pow2(n) == IF n = 0 THEN 1 ELSE 2 * Pow2(n - 1)

\* min(2^(k-1), 30)
Backoff(k) == MinInt(Pow2(k - 1), 30)

\* C4 (as claimed): the delay slept after the k-th consecutive failed
\* connection attempt since the last successful connection is
\* min(2^(k-1), 30) seconds.
C4_BackoffByFailedAttempts ==
    (pc = "sleeping" /\ attemptFails >= 1) =>
        slept[Len(slept)] = Backoff(attemptFails)

\* C4 (amended): the delay slept after the k-th consecutive failure since the
\* last successful connection, a failure being a failed connection attempt or
\* the loss of an established connection with an error, is min(2^(k-1), 30)
\* seconds; so the first delay slept after a successful connection is 1.
C4_BackoffByFailures ==
    pc = "sleeping" =>
        /\ failures >= 1
        /\ slept[Len(slept)] = Backoff(failures)
        /\ reconnect_delay = slept[Len(slept)]

\* a connection that was lost and then six failed attempts: 1 ... 30, 30
C4_Witness ==
    /\ pc = "sleeping"
    /\ attemptFails = 6
    /\ failures = 7
    /\ slept = <<1, 2, 4, 8, 16, 30, 30>>

\* C12 (as claimed): once stop() has returned, the keepalive task is cancelled,
\* the socket is closed, and no socket is open or is opened afterwards, at
\* whatever moment stop was issued.
C12_StoppedMeansClosed ==
    (~running /\ pc /= "idle") => (websocket /= "open" /\ ping_task /= "live")

\* C14 (as claimed): whenever a running connection loses its connection, by an
\* error or by a clean close that ends the receive loop, the old socket and
\* keepalive task are released and the backoff delay is slept before the next
\* attempt: no reconnection attempt starts without a preceding sleep.
C14_BackoffBeforeEveryReconnect ==
    [][(pc' = "connecting" /\ pc \notin {"idle", "done", "connecting"})
        => (pc = "sleeping" /\ ping_task' /= "live" /\ websocket' = "none")]_vars

\* C15 (as claimed): the delay is set back to 1 only when the subscription has
\* been sent; an attempt that opens the socket and fails in the send does not
\* reset the delay.
C15_ResetOnlyAfterSubscribed ==
    [][/\ (reconnect_delay' < reconnect_delay) => (pc = "open" /\ pc' = "reading")
       /\ (pc = "connecting" /\ pc' = "open") => reconnect_delay' = reconnect_delay]_vars

\* C15 (amended): the delay is set back to 1 when websockets.connect succeeds,
\* before the subscription is sent, and by nothing else; the sending of the
\* subscription leaves the delay alone, so the sleep after an attempt that
\* opened the socket and failed in the send is 1.
C15_ResetWhenSocketOpens ==
    [][/\ (reconnect_delay' < reconnect_delay) => (pc = "connecting" /\ pc' = "open")
       /\ (pc = "connecting" /\ pc' = "open") => reconnect_delay' = 1
       /\ (pc = "open" /\ pc' = "reading") => reconnect_delay' = reconnect_delay
       /\ (pc = "open" /\ pc' = "sleeping") => slept'[Len(slept')] = 1]_vars

\* backed off to 2, then an attempt that opened the socket and failed in the
\* send: the sleep after it is 1
C15_Witness ==
    /\ pc = "sleeping"
    /\ lastFail = "send"
    /\ Len(slept) >= 2
    /\ slept[Len(slept) - 1] = 2
    /\ slept[Len(slept)] = 1

\* the live keepalive tasks of the connection
LiveKeepalives == (IF ping_task = "live" THEN 1 ELSE 0) + orphans

\* C33: at every moment a connection has at most one live keepalive task,
\* across any number of disconnects and reconnects, by error or by clean
\* close: a new keepalive task is created only after the previous one was
\* cancelled or has ended, so no two keepalive tasks ping for one connection.
C33_OneKeepaliveTask ==
    /\ [](LiveKeepalives <= 1)
    /\ [][ping_task' = "live" /\ pc = "connecting" /\ pc' = "open"
             => ping_task /= "live"]_vars

\* the reconnects after an error: the except branch has cancelled the task
\* before it sleeps, and a task is left without a name only by a connection
\* made after the message loop ended without an exception
OneKeepaliveAfterError ==
    /\ [](pc = "sleeping" => ping_task /= "live")
    /\ [][orphans' > orphans => (pc = "connecting" /\ websocket = "closed")]_vars

(***************************************************************************)
(* SpecCalls: SpecConn with start() and stop() called at any time, stop()   *)
(* followed from one await of _cleanup to the next, so that a second stop   *)
(* (the signal handler's task and the finally clause of the application)   *)
(* runs between the steps of the first.  The connection is constructed     *)
(* with the token ids of the events or with an empty list.                 *)
(*   stops[k].pc = "none"        stop call k not made                      *)
(*                 "cancelling"  ping_task.cancel() done, awaiting the task *)
(*                 "closing"     awaiting self.websocket.close()            *)
(*                 "returned"    stop call k has returned                   *)
(*   ping_task = "cancelled": cancel was requested, the task not yet done  *)
(***************************************************************************)
MaxStopCalls  == 2     \* stop() calls in one run
MaxCallSleeps == 1     \* sleeps of the reconnect loop in one run

NoStop == [pc |-> "none", again |-> FALSE]

InitCalls ==
    /\ SideIdle /\ MarketIdle /\ FrameIdle /\ MultiIdle /\ BootIdle /\ IngestIdle
    /\ ConnIdle
    /\ asset_ids \in {TokenIdsOf(<<Def1, Def2>>), <<>>}
    /\ chunk_size = DEFAULT_CHUNK_SIZE
    /\ clients = <<asset_ids>>
    /\ path = "single"
    /\ sent = <<>>
    /\ inbox = <<>>
    /\ arrivals = 0
    /\ handled = <<>>
    /\ frame_failed = FALSE
    /\ keepalive = "none"
    /\ ping_event = [last |-> "none", failed |-> FALSE]
    /\ orphans = 0
    /\ stops = [k \in 1..MaxStopCalls |-> NoStop]
    /\ conn_call = NoCall

callRest == <<sideVars, bootVars, ingestVars, frameVars, multiVars, marketVars, chunkVars,
              arrivals, handled, ping_event>>

\* start() on a running connection: the warning and the return
StartRepeated ==
    /\ running
    /\ conn_call' = [kind |-> "start", result |-> "already running"]
    /\ UNCHANGED <<connVars, sent, inbox, frame_failed, keepalive, orphans, stops,
                   callRest>>

\* start() on a connection without asset ids: ValueError, before running is set
StartEmpty ==
    /\ ~running
    /\ self_asset_ids = <<>>
    /\ conn_call' = [kind |-> "start", result |-> "ValueError"]
    /\ UNCHANGED <<connVars, sent, inbox, frame_failed, keepalive, orphans, stops,
                   callRest>>

\* a stop() call stands at an await of _cleanup
StopInProgress == \E k \in DOMAIN stops : stops[k].pc \in {"cancelling", "closing"}

\* _cleanup from 'if self.websocket' on: the close is awaited, or it returns
AfterPingTask == IF websocket /= "none" THEN "closing" ELSE "returned"

\* stop() is called: running is cleared; _cleanup cancels the keepalive task
\* that ping_task names, when it is not done, and awaits it
StopEnter(k) ==
    /\ stops[k].pc = "none"
    /\ running' = FALSE
    /\ IF ping_task \in {"live", "cancelled"}
       THEN /\ ping_task' = "cancelled"
            /\ keepalive' = "none"
            /\ stops' = [stops EXCEPT ![k] = [pc |-> "cancelling",
                                             again |-> ~running \/ StopInProgress]]
       ELSE /\ stops' = [stops EXCEPT ![k] = [pc |-> AfterPingTask,
                                             again |-> ~running \/ StopInProgress]]
            /\ UNCHANGED <<ping_task, keepalive>>
    /\ UNCHANGED <<websocket, reconnect_delay, pc, slept, failures, attemptFails,
                   lastFail, sent, inbox, frame_failed, orphans, conn_call, callRest>>

\* the cancelled keepalive task has ended: ping_task = None, then the socket
StopPingDone(k) ==
    /\ stops[k].pc = "cancelling"
    /\ ping_task' = "none"
    /\ stops' = [stops EXCEPT ![k].pc = AfterPingTask]
    /\ UNCHANGED <<running, websocket, reconnect_delay, pc, slept, failures,
                   attemptFails, lastFail, sent, inbox, frame_failed, keepalive,
                   orphans, conn_call, callRest>>

\* websocket.close() has returned: self.websocket = None, and stop returns
StopClosed(k) ==
    /\ stops[k].pc = "closing"
    /\ websocket' = "none"
    /\ inbox' = <<>>
    /\ stops' = [stops EXCEPT ![k].pc = "returned"]
    /\ UNCHANGED <<running, reconnect_delay, ping_task, pc, slept, failures,
                   attemptFails, lastFail, sent, frame_failed, keepalive,
                   orphans, conn_call, callRest>>

\* the steps of _connect and of the keepalive tasks; start() enters _connect
\* when no stop() is under way
ConnSteps ==
    \/ (ConnStart /\ ~StopInProgress)
    \/ ConnectOk \/ ConnectFail \/ SendFail \/ SendOk
    \/ ConnLost \/ LoopEnds \/ WakeUp \/ OrphanEnds

NextCalls ==
    \/ (ConnSteps /\ Len(slept') <= MaxCallSleeps)
    \/ StartRepeated \/ StartEmpty
    \/ \E k \in DOMAIN stops : StopEnter(k) \/ StopPingDone(k) \/ StopClosed(k)

SpecCalls == InitCalls /\ [][NextCalls]_vars

\* a start() call returned, or raised, in this step without entering _connect
StartCallEnded(result) == conn_call' /= conn_call /\ conn_call'.result = result

\* stop call k, made on a stopped connection or while another stop was under
\* way, returns in this step
RepeatedStopReturns(k) ==
    /\ stops[k].pc /= "returned"
    /\ stops'[k].pc = "returned"
    /\ stops'[k].again

\* a repeated start changes nothing of the connection, a start without asset
\* ids leaves running false
RepeatedStartHarmless ==
    /\ StartCallEnded("already running") =>
          UNCHANGED <<connVars, sent, inbox, keepalive, orphans>>
    /\ StartCallEnded("ValueError") =>
          (~running' /\ pc' = pc /\ websocket' = websocket)

\* C39: start() and stop() of a connection are safe to repeat: start() on a
\* running connection starts no second connect loop and opens no second
\* socket, start() with an empty list of ids fails with running left false,
\* and stop() on a stopped connection, or a second stop concurrent with the
\* first, leaves it stopped with no socket and no keepalive task.
C39_StartStopRepeatable ==
    [][/\ RepeatedStartHarmless
       /\ \A k \in DOMAIN stops :
             RepeatedStopReturns(k) =>
                 /\ ~running'
                 /\ websocket' = "none"
                 /\ ping_task' \notin {"live", "cancelled"}
                 /\ orphans' = 0]_vars

\* the same, of the task that ping_task names alone
RepeatedCallsLeaveNoNamedTask ==
    [][/\ RepeatedStartHarmless
       /\ \A k \in DOMAIN stops :
             RepeatedStopReturns(k) =>
                 /\ ~running'
                 /\ websocket' = "none"
                 /\ ping_task' \notin {"live", "cancelled"}]_vars

\* both stops of a started connection have returned, one of them made while
\* the other was under way or after it; a repeated start was refused before
BothStopsReturned ==
    /\ \A k \in DOMAIN stops : stops[k].pc = "returned"
    /\ \E k \in DOMAIN stops : stops[k].again
    /\ ~running /\ websocket = "none" /\ ping_task = "none"
    /\ pc = "done"
    /\ conn_call = [kind |-> "start", result |-> "already running"]

(***************************************************************************)
(* SpecConnFair: SpecConn with the connection task scheduled: a sleep that  *)
(* was started returns.  Connection attempts, failures and stop are events  *)
(* of the network and of the caller.                                       *)
(***************************************************************************)
SpecConnFair == SpecConn /\ WF_vars(WakeUp)

\* C16: as long as stop() has not been called the connection never gives up:
\* after every failure a new connection attempt is eventually made, for any
\* number of consecutive failures, and _connect returns only after stop().
C16_NeverGivesUp ==
    /\ (pc = "sleeping" /\ running) ~> (pc = "connecting" \/ ~running)
    /\ [](pc = "done" => ~running)

\* a new attempt under way after seven consecutive failures
C16_Witness ==
    /\ pc = "connecting"
    /\ running
    /\ failures = 7
    /\ reconnect_delay = max_reconnect_delay

(***************************************************************************)
(* SpecFrame: inbound frames passing through PolyWebSocket._handle_message  *)
(* of a connection whose on_book is PolyOrderBookApp.handle_book_update and *)
(* which has no on_message callback, as the application creates it.         *)
(* A decoded item is a dict or some other JSON value; a dict may lack the   *)
(* key event_type.                                                         *)
(***************************************************************************)
MaxBatch  == 3      \* items in one frame
MaxFrames == 2      \* frames received in one run

JsonItem(is_dict, has_type, event_type, asset_id, asks) ==
    [is_dict |-> is_dict, has_type |-> has_type, event_type |-> event_type,
     asset_id |-> asset_id, bids |-> <<>>, asks |-> asks]

\* a book update, a book update whose ask price is no number, the other known
\* types, an unknown type, a dict without event_type, and a JSON string
FrameItems ==
    { JsonItem(TRUE, TRUE, "book", "y1", <<L("0.40", "10")>>),
      JsonItem(TRUE, TRUE, "book", "y2", <<L("abc", "10")>>),
      JsonItem(TRUE, TRUE, "price_change", "y1", <<L("0.30", "10")>>),
      JsonItem(TRUE, TRUE, "tick_size_change", "y1", <<>>),
      JsonItem(TRUE, TRUE, "last_trade_price", "y1", <<L("0.30", "10")>>),
      JsonItem(TRUE, FALSE, "", "y1", <<L("0.30", "10")>>),
      JsonItem(FALSE, FALSE, "", "", <<>>) }

\* json.loads(message): a list, a single dict, or text that is no JSON
Frames ==
    {[json |-> "list", items |-> s] : s \in SeqsUpTo(FrameItems, MaxBatch)}
    \cup {[json |-> "dict", items |-> <<d>>] : d \in {x \in FrameItems : x.is_dict}}
    \cup {[json |-> "invalid", items |-> <<>>]}

\* data.get('event_type')
GetEventType(data) == IF data.has_type THEN data.event_type ELSE "None"

\* one pass of the for loop of _handle_message, on item i; st is [events,
\* opportunities, clock, invoked, order, raised], order being the items given
\* to on_book in the order of the calls
HandleItem(data, i, map, thr, st) ==
    IF ~data.is_dict THEN st
    ELSE IF GetEventType(data) \in {"price_change", "tick_size_change"} THEN st
    ELSE IF GetEventType(data) = "book"
         THEN CHOOSE st2 \in
                 {[events |-> r.events,
                   opportunities |-> r.opportunities,
                   clock |-> st.clock + 1,
                   invoked |-> st.invoked \cup {i},
                   order |-> Append(st.order, i),
                   raised |-> r.call.raised /= "none"] :
                     r \in {AppHandle(st.events, map, st.opportunities, thr,
                                      Msg(data.asset_id, data.bids, data.asks),
                                      st.clock + 1)}} : TRUE
         ELSE st

\* the for loop of _handle_message from item i on.  An exception of on_book
\* leaves the loop: the try statement encloses the whole loop.
RECURSIVE HandleItems(_, _, _, _, _)
HandleItems(items, i, map, thr, st) ==
    IF i > Len(items) \/ st.raised THEN st
    ELSE CHOOSE end \in
            {HandleItems(items, i + 1, map, thr, s) :
                s \in {HandleItem(items[i], i, map, thr, st)}} : TRUE

\* PolyWebSocket._handle_message: [events, opportunities, clock, invoked, order,
\* raised]
HandleMessage(frame, evs, map, log, thr, now) ==
    LET st == [events |-> evs, opportunities |-> log, clock |-> now,
               invoked |-> {}, order |-> <<>>, raised |-> FALSE]
    IN  IF frame.json = "invalid" THEN st
        ELSE HandleItems(frame.items, 1, map, thr, st)

FramesSeen == IF lastFrame.kind = "none" THEN 0 ELSE lastFrame.n

InitFrame ==
    /\ SideIdle /\ ChunkIdle /\ ConnIdle /\ MultiIdle /\ StreamIdle /\ BootIdle /\ IngestIdle
    /\ LET m == LoadEvents(<<Def1, Def2>>, 2)
       IN  /\ events = m.events
           /\ token_to_outcome = m.token_to_outcome
    /\ loads = <<Def1, Def2>>
    /\ opportunities = <<>>
    /\ threshold = "0.99"
    /\ clock = 0
    /\ delivered = <<>>
    /\ lastCall = NoCall
    /\ lastFrame = [kind |-> "none"]

\* one frame is received and handled
OnFrame ==
    /\ FramesSeen < MaxFrames
    /\ \E frame \in Frames :
        \E st \in {HandleMessage(frame, events, token_to_outcome, opportunities,
                                 threshold, clock)} :
            /\ events' = st.events
            /\ opportunities' = st.opportunities
            /\ clock' = st.clock
            /\ lastFrame' = [kind |-> "frame", n |-> FramesSeen + 1,
                             json |-> frame.json, items |-> frame.items,
                             invoked |-> st.invoked, raised |-> st.raised]
    /\ UNCHANGED <<token_to_outcome, threshold, delivered, lastCall, loads,
                   sideVars, bootVars, ingestVars, streamVars, chunkVars, connVars, multiVars>>

SpecFrame == InitFrame /\ [][OnFrame]_vars

\* item i of the last frame is a dict tagged as a book update
IsBookItem(i) ==
    lastFrame.items[i].is_dict /\ GetEventType(lastFrame.items[i]) = "book"

\* C18 (as claimed): for every decoded message of a frame, the book handler is
\* invoked if and only if the message's type tag is the book-update type.
C18_HandlerIffBookTag ==
    (lastFrame.kind = "frame" /\ lastFrame.json /= "invalid") =>
        \A i \in 1..Len(lastFrame.items) : (i \in lastFrame.invoked) <=> IsBookItem(i)

\* C19 (as claimed): when a message of a batch makes its handler fail, only
\* that message is skipped: the book updates after it in the same frame are
\* still forwarded to the handler.
C19_RestOfBatchProcessed ==
    (lastFrame.kind = "frame" /\ lastFrame.raised) =>
        \A i \in 1..Len(lastFrame.items) :
            (IsBookItem(i) /\ \E j \in lastFrame.invoked : j < i)
                => i \in lastFrame.invoked

(***************************************************************************)
(* SpecStream: one PolyWebSocket of the application's single-connection     *)
(* path with its traffic: frames arrive on the open socket and queue up,    *)
(* the message loop of _connect reads them one at a time and gives each to  *)
(* _handle_message, and the keepalive task pings between its sleeps.        *)
(* _handle_message and on_book (handle_book_update) contain no await that   *)
(* suspends, so a frame is handled in one step of the event loop.           *)
(***************************************************************************)
MaxArrivals     == 2     \* frames arriving in one run
MaxStreamSleeps == 1     \* sleeps of the reconnect loop in one run with traffic

BookItem(a, p) == JsonItem(TRUE, TRUE, "book", a, <<L(p, "10")>>)

\* a batch of two book updates, a batch whose first update has a price that
\* is no number, a single book update, and text that is no JSON
StreamFrames ==
    { [json |-> "list", items |-> <<BookItem("y1", "0.40"), BookItem("y2", "0.30")>>],
      [json |-> "list", items |-> <<BookItem("y2", "abc"), BookItem("y1", "0.30")>>],
      [json |-> "dict", items |-> <<BookItem("y1", "0.30")>>],
      [json |-> "invalid", items |-> <<>>] }

InitStream ==
    /\ SideIdle /\ ConnIdle /\ MultiIdle /\ StreamIdle /\ BootIdle /\ IngestIdle /\ FrameIdle
    /\ ClientCreated
    /\ LET m == LoadEvents(<<Def1, Def2>>, 2)
       IN  /\ events = m.events
           /\ token_to_outcome = m.token_to_outcome
    /\ loads = <<Def1, Def2>>
    /\ opportunities = <<>>
    /\ threshold = "0.99"
    /\ clock = 0
    /\ delivered = <<>>
    /\ lastCall = NoCall

\* the venue sends a frame: it joins the queue of the open socket
Arrive ==
    /\ websocket = "open"
    /\ pc \in {"open", "reading"}
    /\ arrivals < MaxArrivals
    /\ \E frame \in StreamFrames :
           inbox' = Append(inbox, [n |-> arrivals + 1, frame |-> frame])
    /\ arrivals' = arrivals + 1
    /\ UNCHANGED <<sent, handled, frame_failed, keepalive, ping_event, orphans, stops, conn_call, connVars,
                   sideVars, bootVars, ingestVars, marketVars, chunkVars, frameVars, multiVars>>

\* what handling the queued frame q does to the graph and to the histories
HandleQueued(q) ==
    \E st \in {HandleMessage(q.frame, events, token_to_outcome, opportunities,
                             threshold, clock)} :
        /\ events' = st.events
        /\ opportunities' = st.opportunities
        /\ clock' = st.clock
        /\ lastFrame' = [kind |-> "frame", n |-> q.n, json |-> q.frame.json,
                         items |-> q.frame.items, invoked |-> st.invoked,
                         raised |-> st.raised, after_failure |-> frame_failed]
        /\ handled' = handled \o [k \in 1..Len(st.order) |->
                                     [frame |-> q.n, item |-> st.order[k],
                                      subs |-> Len(sent), sleeps |-> Len(slept)]]
        /\ frame_failed' = (frame_failed \/ st.raised \/ q.frame.json = "invalid")

\* the message loop taking the newest queued frame first
ReceiveNewestFirst ==
    /\ pc = "reading"
    /\ running
    /\ inbox /= <<>>
    /\ HandleQueued(inbox[Len(inbox)])
    /\ inbox' = SubSeq(inbox, 1, Len(inbox) - 1)
    /\ UNCHANGED <<sent, arrivals, keepalive, ping_event, orphans, stops, conn_call, connVars,
                   token_to_outcome, threshold, delivered, lastCall, loads,
                   sideVars, bootVars, ingestVars, chunkVars, multiVars>>

\* the message loop left for a new connection attempt by a frame that failed
ReceiveLeavesOnFailure ==
    /\ pc = "reading"
    /\ running
    /\ inbox /= <<>>
    /\ HandleQueued(Head(inbox))
    /\ inbox' = Tail(inbox)
    /\ pc' = IF frame_failed' THEN "connecting" ELSE pc
    /\ UNCHANGED <<sent, arrivals, keepalive, ping_event, orphans, stops, conn_call, running, websocket,
                   reconnect_delay, ping_task, slept, failures, attemptFails,
                   lastFail, token_to_outcome, threshold, delivered, lastCall,
                   loads, sideVars, bootVars, ingestVars, chunkVars, multiVars>>

\* one pass of 'async for message in websocket' while running: the oldest
\* queued frame is taken and 'await self._handle_message(message)' handles
\* it; every exception is caught there, so the loop goes on
Receive ==
    /\ pc = "reading"
    /\ running
    /\ inbox /= <<>>
    /\ HandleQueued(Head(inbox))
    /\ inbox' = Tail(inbox)
    /\ UNCHANGED <<sent, arrivals, keepalive, ping_event, orphans, stops, conn_call, connVars,
                   token_to_outcome, threshold, delivered, lastCall, loads,
                   sideVars, bootVars, ingestVars, chunkVars, multiVars>>

streamRest == <<orphans, stops, conn_call, sent, inbox, arrivals, handled, frame_failed, connVars, sideVars, bootVars, ingestVars,
                marketVars, chunkVars, frameVars, multiVars>>

\* the outcomes of _send_ping: it pings only with a socket and while running,
\* and catches the exception of a ping that fails
PingOutcomes ==
    IF websocket = "none" \/ ~running THEN {"none"}
    ELSE IF websocket = "open" THEN {"sent", "failed"}
    ELSE {"failed"}

\* _keepalive ended by a ping that fails
KeepalivePingFatal ==
    /\ keepalive = "due"
    /\ \E o \in PingOutcomes :
          /\ ping_event' = [last |-> o, failed |-> ping_event.failed \/ o = "failed"]
          /\ keepalive' = IF o = "failed" THEN "none" ELSE "sleeping"
    /\ UNCHANGED streamRest

\* _keepalive: 'await self._send_ping()', then it sleeps ping_interval
KeepalivePing ==
    /\ keepalive = "due"
    /\ \E o \in PingOutcomes :
          ping_event' = [last |-> o, failed |-> ping_event.failed \/ o = "failed"]
    /\ keepalive' = "sleeping"
    /\ UNCHANGED streamRest

\* asyncio.sleep(self.ping_interval) returns: the test of 'while self.running'
KeepaliveWake ==
    /\ keepalive = "sleeping"
    /\ keepalive' = IF running THEN "due" ELSE "none"
    /\ ping_event' = [ping_event EXCEPT !.last = "none"]
    /\ UNCHANGED streamRest

NextStream ==
    \/ (NextConn /\ Len(slept') <= MaxStreamSleeps)
    \/ Arrive \/ Receive \/ KeepalivePing \/ KeepaliveWake

SpecStream == InitStream /\ [][NextStream]_vars

\* a step of the message loop that handled a frame
FrameHandled == lastFrame' /= lastFrame

\* C21: no failure in the ingestion path ends a connection's processing: a
\* step that handles a frame, whether its text is no JSON or the handling of
\* one of its messages raises, leaves the connection in its message loop on
\* the same socket, with no cleanup, sleep or new subscription; frames leave
\* the queue of a live connection only by being handled, the oldest first,
\* so every later frame is read and handled too.
C21_FailureKeepsLoopActive ==
    [][/\ FrameHandled =>
            /\ pc = "reading" /\ pc' = "reading"
            /\ running' /\ websocket = "open" /\ websocket' = "open"
            /\ slept' = slept /\ sent' = sent /\ ping_task' = ping_task
            /\ lastFrame'.n = Head(inbox).n
            /\ inbox' = Tail(inbox)
       /\ (pc = "reading" /\ pc' = "reading" /\ running' /\ Len(inbox') < Len(inbox))
            => FrameHandled]_vars

\* a book update handled on a connection on which an earlier frame had
\* failed, with no reconnection in the run
C21_Witness ==
    /\ lastFrame.kind = "frame"
    /\ lastFrame.after_failure
    /\ lastFrame.invoked /= {}
    /\ ~lastFrame.raised
    /\ pc = "reading"
    /\ slept = <<>>

\* call a of the handler came before call b in arrival order
ArrivedBefore(a, b) ==
    a.frame < b.frame \/ (a.frame = b.frame /\ a.item < b.item)

\* C24: within one connection book updates reach the handler in arrival
\* order: the frames in the order received (the loop takes the oldest queued
\* frame, and the queue keeps arrival order), the messages of a batch in
\* array order, one call after the other.
C24_HandledInArrivalOrder ==
    /\ \A i, j \in 1..Len(handled) : i < j => ArrivedBefore(handled[i], handled[j])
    /\ \A i, j \in 1..Len(inbox) : i < j => inbox[i].n < inbox[j].n
    /\ (lastFrame.kind = "frame" /\ inbox /= <<>>) => lastFrame.n < Head(inbox).n

\* both updates of a batch, then the update of the frame that arrived while
\* the batch was still queued
C24_Witness ==
    /\ Len(handled) = 3
    /\ <<handled[1].frame, handled[1].item>> = <<1, 1>>
    /\ <<handled[2].frame, handled[2].item>> = <<1, 2>>
    /\ <<handled[3].frame, handled[3].item>> = <<2, 1>>
    /\ handled[3].sleeps = 0

\* C26: on every successful connection, reconnections included, exactly one
\* subscription request is sent, naming all asset ids of the connection, and
\* no message of that connection is handled before it: nothing is sent on a
\* socket before the message loop but this request, and every call of the
\* handler found exactly one request sent on its socket.
C26_SubscribedOncePerConnection ==
    /\ pc = "open" => sent = <<>>
    /\ pc = "reading" =>
           /\ Len(sent) = 1
           /\ sent[1].type = "MARKET"
           /\ sent[1].assets_ids = asset_ids
    /\ \A k \in 1..Len(handled) : handled[k].subs = 1
    /\ Len(sent) <= 1

\* a book update handled on a connection made after a backoff sleep
C26_Witness ==
    /\ pc = "reading"
    /\ Len(sent) = 1
    /\ sent[1].assets_ids = TokenIdsOf(<<Def1, Def2>>)
    /\ \E k \in 1..Len(handled) : handled[k].sleeps = 1 /\ handled[k].subs = 1

\* the state of the Stream Connection: Disconnected while _connect has not
\* been entered, has returned or sleeps in backoff; Connecting while it awaits
\* websockets.connect; Subscribed with the socket open and the subscription
\* being sent; Streaming in the message loop on the open socket; Closing when
\* the socket was closed and the coroutine has not yet left that socket
ConnState ==
    CASE pc \in {"idle", "done", "sleeping"} -> "Disconnected"
      [] pc = "connecting" -> "Connecting"
      [] pc = "open" /\ websocket = "open" -> "Subscribed"
      [] pc = "reading" /\ websocket = "open" -> "Streaming"
      [] OTHER -> "Closing"

\* the moves of the state machine, a failure leading back to Disconnected
StateMoves ==
    { <<"Disconnected", "Connecting">>, <<"Connecting", "Subscribed">>,
      <<"Subscribed", "Streaming">>, <<"Streaming", "Closing">>,
      <<"Streaming", "Disconnected">>, <<"Connecting", "Disconnected">>,
      <<"Subscribed", "Disconnected">>, <<"Subscribed", "Closing">>,
      <<"Closing", "Disconnected">> }

\* C27 (as claimed): the connection only moves along Disconnected ->
\* Connecting -> Subscribed -> Streaming -> (Closing | Disconnected); it never
\* streams without having subscribed on the current socket; and once stopped
\* it is not in Connecting, Subscribed or Streaming.  (It holds one socket
\* field, self.websocket, which the next connection overwrites.)
C27_StateMachine ==
    [][/\ ConnState' /= ConnState => <<ConnState, ConnState'>> \in StateMoves
       /\ ConnState' = "Streaming" => Len(sent') = 1
       /\ (~running' /\ pc' /= "idle")
              => ConnState' \notin {"Connecting", "Subscribed", "Streaming"}]_vars

\* the part of C27 that the code keeps: the moves, with the move from
\* Streaming straight to Connecting on a clean close added, and no streaming
\* without the subscription
MovesWhileRunning ==
    [][/\ ConnState' /= ConnState =>
             <<ConnState, ConnState'>> \in
                 StateMoves \cup {<<"Streaming", "Connecting">>}
       /\ ConnState' = "Streaming" => Len(sent') = 1]_vars

\* stopped, and yet subscribed or streaming on an open socket
StoppedYetStreaming ==
    ~running /\ pc /= "idle" /\ ConnState \in {"Subscribed", "Streaming"}

(***************************************************************************)
(* SpecStreamFair: SpecStream with the keepalive task scheduled by the      *)
(* event loop: its ping is made once it is due and its sleep returns.  The  *)
(* message loop suspends at every receive, so it cannot keep the event loop *)
(* from the keepalive task.  Nothing forces frames to arrive.               *)
(***************************************************************************)
SpecStreamFair == SpecStream /\ WF_vars(KeepalivePing) /\ WF_vars(KeepaliveWake)

\* the connection is up: running, in its message loop on an open socket
StreamingNow == running /\ pc = "reading" /\ websocket = "open"

\* C28: while the connection streams its keepalive task is alive, and as long
\* as the connection stays up and is not stopped the sleep of the keepalive
\* ends and another ping is made, whether or not frames arrive and also after
\* a ping that failed.
C28_KeepalivePings ==
    /\ [](StreamingNow => keepalive /= "none")
    /\ (StreamingNow /\ keepalive = "sleeping") ~> (keepalive = "due" \/ ~StreamingNow)
    /\ (StreamingNow /\ keepalive = "due")
          ~> ((keepalive = "sleeping" /\ ping_event.last /= "none") \/ ~StreamingNow)
    /\ (StreamingNow /\ ping_event.last = "failed")
          ~> (keepalive = "due" \/ ~StreamingNow)

\* a ping sent on a streaming connection after an earlier ping had failed,
\* in a run in which no frame arrived
C28_Witness ==
    /\ StreamingNow
    /\ arrivals = 0
    /\ ping_event = [last |-> "sent", failed |-> TRUE]
    /\ keepalive = "sleeping"
    /\ slept = <<>>

(***************************************************************************)
(* SpecMulti: PolyOrderBookApp with the events Def1 and Def2 loaded and a   *)
(* cap of 4 tokens per connection: start takes the sharded path and the     *)
(* MultiPolyWebSocket holds two PolyWebSocket clients.  Every client runs   *)
(* its own _connect coroutine; stop arrives from the signal handler as a    *)
(* task of its own.  shard[s].fails counts the sleeps of client s.          *)
(*   appPc = "starting"  awaiting self.websocket_client.start()             *)
(*           "looping"   in the loop 'while self.running'                   *)
(*           "finally"   the loop was left, self.stop() about to run        *)
(*           "returned"  start has returned                                 *)
(***************************************************************************)
MaxShardFails == 2     \* sleeps of one client in one run
MaxDeliveries == 2     \* book updates handed to the handler in one run
MaxTicks      == 1     \* iterations of the run loop in one run

\* a PolyWebSocket after __init__
NewClient ==
    [running |-> FALSE, websocket |-> "none", reconnect_delay |-> 1,
     ping_task |-> "none", pc |-> "idle", fails |-> 0]

InitMulti ==
    /\ SideIdle /\ ConnIdle /\ FrameIdle /\ StreamIdle /\ BootIdle /\ IngestIdle
    /\ LET m == LoadEvents(<<Def1, Def2>>, 2)
       IN  /\ events = m.events
           /\ token_to_outcome = m.token_to_outcome
    /\ loads = <<Def1, Def2>>
    /\ opportunities = <<>>
    /\ threshold = "0.99"
    /\ clock = 0
    /\ delivered = <<>>
    /\ lastCall = NoCall
    /\ asset_ids = TokenIdsOf(<<Def1, Def2>>)
    /\ chunk_size = 4
    /\ clients = <<>>
    /\ path = "none"
    /\ shard = <<>>
    /\ appPc = "idle"
    /\ appRunning = FALSE
    /\ stopPc = "none"
    /\ shardDelivered = <<>>
    /\ ticks = 0

multiRest == <<sideVars, bootVars, ingestVars, streamVars, connVars, frameVars, token_to_outcome, threshold, loads,
               delivered, asset_ids, chunk_size>>

\* PolyOrderBookApp.start up to 'await self.websocket_client.start()': the
\* MultiPolyWebSocket is built and gather starts every client, each of which
\* sets running and enters _connect
AppStart ==
    /\ appPc = "idle"
    /\ ~appRunning
    /\ Len(asset_ids) > chunk_size
    /\ appRunning' = TRUE
    /\ clients' = ChunkAssetIds(asset_ids, chunk_size)
    /\ path' = "multi"
    /\ shard' = [s \in 1..Len(clients') |->
                    [NewClient EXCEPT !.running = TRUE, !.pc = "connecting"]]
    /\ shardDelivered' = [s \in 1..Len(clients') |-> <<>>]
    /\ appPc' = "starting"
    /\ UNCHANGED <<stopPc, ticks, events, opportunities, clock, lastCall, multiRest>>

\* the steps of client s leave the application and the books alone
ShardStep(s, rec) ==
    /\ shard' = [shard EXCEPT ![s] = rec]
    /\ UNCHANGED <<appPc, appRunning, stopPc, shardDelivered, ticks, clients, path,
                   events, opportunities, clock, lastCall, multiRest>>

ShardConnectOk(s) ==
    /\ shard[s].pc = "connecting"
    /\ ShardStep(s, [shard[s] EXCEPT
                        !.websocket = "open",
                        !.reconnect_delay = 1,
                        !.ping_task = IF shard[s].running THEN "live" ELSE "done",
                        !.pc = "open"])

\* an except branch of client s whose cleanup releases the socket and the
\* keepalive task of every client
ShardToSleepAll(s) ==
    /\ shard[s].fails < MaxShardFails
    /\ shard' = [r \in DOMAIN shard |->
                    IF r = s THEN [shard[s] EXCEPT !.ping_task = "none",
                                                   !.websocket = "none",
                                                   !.fails = @ + 1,
                                                   !.pc = "sleeping"]
                    ELSE [shard[r] EXCEPT !.ping_task = "none",
                                          !.websocket = "none"]]
    /\ UNCHANGED <<appPc, appRunning, stopPc, shardDelivered, ticks, clients, path,
                   events, opportunities, clock, lastCall, multiRest>>

\* an except branch of client s up to its sleep
ShardToSleep(s) ==
    /\ shard[s].fails < MaxShardFails
    /\ ShardStep(s, [shard[s] EXCEPT
                        !.ping_task = "none",
                        !.websocket = "none",
                        !.fails = @ + 1,
                        !.pc = "sleeping"])

ShardConnectFail(s) == shard[s].pc = "connecting" /\ ShardToSleep(s)

ShardSendFail(s) == shard[s].pc = "open" /\ ShardToSleep(s)

ShardSendOk(s) ==
    /\ shard[s].pc = "open"
    /\ ShardStep(s, [shard[s] EXCEPT !.pc = "reading"])

ShardConnLost(s) == shard[s].pc = "reading" /\ ShardToSleep(s)

ShardLoopEnds(s) ==
    /\ shard[s].pc = "reading"
    /\ ShardStep(s, [shard[s] EXCEPT
                        !.pc = IF shard[s].running THEN "connecting" ELSE "done",
                        !.websocket = IF @ = "open" THEN "closed" ELSE @])

ShardWakeUp(s) ==
    /\ shard[s].pc = "sleeping"
    /\ ShardStep(s, [shard[s] EXCEPT
                        !.reconnect_delay = NextDelay(@),
                        !.pc = IF shard[s].running THEN "connecting" ELSE "done"])

\* client s, in its message loop, receives a book update for the first token
\* of its chunk and hands it to handle_book_update
Deliver(s) ==
    /\ shard[s].pc = "reading"
    /\ shard[s].running
    /\ clock < MaxDeliveries
    /\ \E r \in {AppHandle(events, token_to_outcome, opportunities, threshold,
                          Msg(clients[s][1], <<>>, <<L("0.40", "10")>>), clock + 1)} :
            /\ events' = r.events
            /\ opportunities' = r.opportunities
            /\ lastCall' = r.call
            /\ clock' = clock + 1
    /\ shardDelivered' = [shardDelivered EXCEPT ![s] =
                             Append(@, [r \in DOMAIN shard |-> shard[r].pc])]
    /\ UNCHANGED <<shard, appPc, appRunning, stopPc, ticks, clients, path, multiRest>>

appRest == <<clients, path, events, opportunities, clock, lastCall, multiRest>>

\* 'await self.websocket_client.start()' returns: gather returns when every
\* client.start() has, and client.start() returns when its _connect has
StartReturns ==
    /\ appPc = "starting"
    /\ \A s \in DOMAIN shard : shard[s].pc = "done"
    /\ appPc' = IF appRunning THEN "looping" ELSE "finally"
    /\ UNCHANGED <<shard, appRunning, stopPc, shardDelivered, ticks, appRest>>

\* one iteration of 'while self.running: await asyncio.sleep(1)'
LoopTick ==
    /\ appPc = "looping"
    /\ appRunning
    /\ ticks < MaxTicks
    /\ ticks' = ticks + 1
    /\ UNCHANGED <<shard, appPc, appRunning, stopPc, shardDelivered, appRest>>

LoopExit ==
    /\ appPc = "looping"
    /\ ~appRunning
    /\ appPc' = "finally"
    /\ UNCHANGED <<shard, appRunning, stopPc, shardDelivered, ticks, appRest>>

\* a client after stop(): running cleared and _cleanup done
Stopped(c) == [c EXCEPT !.running = FALSE, !.ping_task = "none", !.websocket = "none"]

\* the finally clause of start: self.stop()
FinalStop ==
    /\ appPc = "finally"
    /\ shard' = [s \in DOMAIN shard |-> Stopped(shard[s])]
    /\ appRunning' = FALSE
    /\ appPc' = "returned"
    /\ UNCHANGED <<stopPc, shardDelivered, ticks, appRest>>

\* the signal handler creates the task app.stop(), which calls
\* MultiPolyWebSocket.stop: gather over client.stop()
StopBegin ==
    /\ stopPc = "none"
    /\ appPc \in {"starting", "looping"}
    /\ stopPc' = "stopping"
    /\ UNCHANGED <<shard, appPc, appRunning, shardDelivered, ticks, appRest>>

\* client.stop() of client s
ShardStop(s) ==
    /\ stopPc = "stopping"
    /\ shard[s].running
    /\ shard' = [shard EXCEPT ![s] = Stopped(@)]
    /\ UNCHANGED <<appPc, appRunning, stopPc, shardDelivered, ticks, appRest>>

\* gather returns, app.stop() clears running and returns
StopReturns ==
    /\ stopPc = "stopping"
    /\ \A s \in DOMAIN shard : ~shard[s].running
    /\ appRunning' = FALSE
    /\ stopPc' = "returned"
    /\ UNCHANGED <<shard, appPc, shardDelivered, ticks, appRest>>

ShardNext(s) ==
    \/ ShardConnectOk(s) \/ ShardConnectFail(s) \/ ShardSendFail(s) \/ ShardSendOk(s)
    \/ ShardConnLost(s) \/ ShardLoopEnds(s) \/ ShardWakeUp(s) \/ Deliver(s)
    \/ ShardStop(s)

NextMulti ==
    \/ AppStart \/ StartReturns \/ LoopTick \/ LoopExit \/ FinalStop
    \/ StopBegin \/ StopReturns
    \/ \E s \in DOMAIN shard : ShardNext(s)

SpecMulti == InitMulti /\ [][NextMulti]_vars

\* the order book of token tok in the graph evs
TokenBook(evs, map, tok) ==
    LET info == map[tok]
        o    == evs[info[1]].outcomes[DictIdx(evs[info[1]].outcomes, info[2])]
    IN  IF info[3] = "yes" THEN o.yes.order_book ELSE o.no.order_book

\* C17: a failure of one shard changes no connection state of any other
\* shard; and a shard in its message loop hands a book update for its own
\* instrument to the shared handler, which applies it to the book of that
\* instrument, whatever the state of its siblings, which the delivery leaves
\* unchanged.
C17_ShardsIndependent ==
    [][/\ \A s \in DOMAIN shard :
            (shard'[s].pc = "sleeping" /\ shard[s].pc /= "sleeping")
                => \A r \in DOMAIN shard \ {s} : shard'[r] = shard[r]
       /\ \A s \in DOMAIN shard :
            (Len(shardDelivered'[s]) > Len(shardDelivered[s]))
                => /\ shard' = shard
                   /\ shard[s].pc = "reading"
                   /\ lastCall'.processed
                   /\ lastCall'.data.asset_id = clients[s][1]
                   /\ TokenBook(events', token_to_outcome, clients[s][1])
                          .asks.levels /= <<>>]_vars

\* shard 1 handed an update to the handler while shard 2 slept in backoff,
\* and the book of its token holds the update
C17_Witness ==
    /\ DOMAIN shard = {1, 2}
    /\ \E k \in 1..Len(shardDelivered[1]) : shardDelivered[1][k][2] = "sleeping"
    /\ events["1"].outcomes[1].yes.order_book.asks.levels /= <<>>

(***************************************************************************)
(* SpecMultiFair: SpecMulti with the tasks of the event loop scheduled:    *)
(* a sleep returns, an await whose awaitable is done returns, the stop      *)
(* task runs on.  Network events and the signal are not forced.            *)
(***************************************************************************)
SpecMultiFair ==
    /\ SpecMulti
    /\ WF_vars(StartReturns) /\ WF_vars(LoopExit) /\ WF_vars(FinalStop)
    /\ WF_vars(StopReturns)
    /\ \A s \in {1, 2} :
          /\ WF_vars(s \in DOMAIN shard /\ ShardWakeUp(s))
          /\ WF_vars(s \in DOMAIN shard /\ ShardStop(s))

\* every client is in its message loop and the application still awaits start
AllStreaming ==
    /\ appPc = "starting"
    /\ \A s \in DOMAIN shard : shard[s].pc = "reading" /\ shard[s].running

\* C13 (as claimed): start() on the sharding layer returns once every
\* connection has entered Streaming, while the connections keep running: it
\* does not wait for them to be stopped.
C13_StartReturnsWhenStreaming ==
    AllStreaming ~> (appPc /= "starting" /\ \E s \in DOMAIN shard : shard[s].running)

(***************************************************************************)
(* SpecLoop: SpecMulti with handle_book_update followed statement by        *)
(* statement: the raw-log write, the routing of the update to its book, the *)
(* evaluation.  All clients are tasks of one event loop, which runs a task  *)
(* until it suspends at an await; handle_book_update and what it calls      *)
(* (save_to_jsonl, OrderBookManager.handle_book_update, check_event) are    *)
(* awaited by _handle_message but contain no await themselves, so a task    *)
(* inside the handler keeps the event loop until the handler returns.       *)
(* in_handler maps each client that is inside the handler to its position.  *)
(***************************************************************************)
MaxLoopUpdates == 2     \* book updates handed to the handler in one run
MaxLoopFails   == 1     \* sleeps of one client in one run

InitLoop ==
    /\ SideIdle /\ ConnIdle /\ FrameIdle /\ StreamIdle /\ BootIdle
    /\ LET m == LoadEvents(<<Def1, Def2>>, 2)
       IN  /\ events = m.events
           /\ token_to_outcome = m.token_to_outcome
    /\ loads = <<Def1, Def2>>
    /\ opportunities = <<>>
    /\ threshold = "0.99"
    /\ clock = 0
    /\ delivered = <<>>
    /\ lastCall = NoCall
    /\ asset_ids = TokenIdsOf(<<Def1, Def2>>)
    /\ chunk_size = 4
    /\ clients = <<>>
    /\ path = "none"
    /\ shard = <<>>
    /\ appPc = "idle"
    /\ appRunning = FALSE
    /\ stopPc = "none"
    /\ shardDelivered = <<>>
    /\ ticks = 0
    /\ save_raw = TRUE
    /\ raw_log = <<>>
    /\ lastCheck = NoCall
    /\ in_handler = <<>>

\* the book updates client s may receive: for the first token of its chunk,
\* well-formed or with a price that is no number
LoopMessages(s) ==
    { Msg(clients[s][1], <<>>, <<L("0.40", "10")>>),
      Msg(clients[s][1], <<>>, <<L("abc", "10")>>) }

\* the event loop has no task inside the handler
LoopFree == in_handler = <<>>

\* in_handler without client s
Left(s) == [r \in DOMAIN in_handler \ {s} |-> in_handler[r]]

loopRest == <<shard, appPc, appRunning, stopPc, shardDelivered, ticks, clients,
              path, token_to_outcome, threshold, loads, delivered, asset_ids,
              chunk_size, save_raw, lastCheck, sideVars, bootVars, connVars, frameVars,
              streamVars>>

\* the handler entered by client s while another client is inside it
HandlerEnterAnyTime(s) ==
    /\ shard[s].pc = "reading"
    /\ shard[s].running
    /\ s \notin DOMAIN in_handler
    /\ clock < MaxLoopUpdates
    /\ \E data \in LoopMessages(s) :
          /\ raw_log' = IF save_raw THEN SaveToJsonl(raw_log, data, clock + 1)
                         ELSE raw_log
          /\ in_handler' = (s :> [step |-> "logged", data |-> data]) @@ in_handler
    /\ clock' = clock + 1
    /\ UNCHANGED <<events, opportunities, lastCall, loopRest>>

\* client s, resumed by the event loop in its message loop with a book
\* update, calls handle_book_update: the raw line is written
HandlerEnter(s) ==
    /\ LoopFree
    /\ shard[s].pc = "reading"
    /\ shard[s].running
    /\ clock < MaxLoopUpdates
    /\ \E data \in LoopMessages(s) :
          /\ raw_log' = IF save_raw THEN SaveToJsonl(raw_log, data, clock + 1)
                         ELSE raw_log
          /\ in_handler' = (s :> [step |-> "logged", data |-> data]) @@ in_handler
    /\ clock' = clock + 1
    /\ UNCHANGED <<events, opportunities, lastCall, loopRest>>

\* self.orderbook_manager.handle_book_update(data): the book is replaced; the
\* handler is left here when the update raised or was not processed
HandlerRoute(s) ==
    /\ s \in DOMAIN in_handler
    /\ in_handler[s].step = "logged"
    /\ \E m \in {ManagerHandle(events, token_to_outcome, in_handler[s].data, clock)} :
          /\ events' = m.events
          /\ IF m.raised \/ ~m.processed
             THEN /\ in_handler' = Left(s)
                  /\ lastCall' = HandlerResult(m.events, opportunities,
                                               in_handler[s].data, FALSE,
                                               IF m.raised THEN "book" ELSE "none",
                                               FALSE, NoEvent, FALSE).call
             ELSE /\ in_handler' = [in_handler EXCEPT ![s].step = "routed"]
                  /\ UNCHANGED lastCall
    /\ UNCHANGED <<opportunities, clock, raw_log, loopRest>>

\* the rest of the handler: the event of the token is evaluated
HandlerEvaluate(s) ==
    /\ s \in DOMAIN in_handler
    /\ in_handler[s].step = "routed"
    /\ \E r \in {Evaluate(events, opportunities, in_handler[s].data,
                           events[token_to_outcome[in_handler[s].data.asset_id][1]],
                           threshold, clock)} :
          /\ opportunities' = r.opportunities
          /\ lastCall' = r.call
    /\ in_handler' = Left(s)
    /\ UNCHANGED <<events, clock, raw_log, loopRest>>

\* the other steps of the tasks, which the event loop takes when no task is
\* inside the handler
TaskStep ==
    /\ LoopFree
    /\ \/ AppStart \/ StartReturns \/ LoopTick \/ LoopExit \/ FinalStop
       \/ StopBegin \/ StopReturns
       \/ \E s \in DOMAIN shard :
             \/ ShardConnectOk(s) \/ ShardConnectFail(s) \/ ShardSendFail(s)
             \/ ShardSendOk(s) \/ ShardConnLost(s) \/ ShardLoopEnds(s)
             \/ ShardWakeUp(s) \/ ShardStop(s)
    /\ \A s \in DOMAIN shard' : shard'[s].fails <= MaxLoopFails

NextLoop ==
    \/ TaskStep
    \/ \E s \in DOMAIN shard : HandlerEnter(s) \/ HandlerRoute(s) \/ HandlerEvaluate(s)

SpecLoop == InitLoop /\ [][NextLoop]_vars

\* C25: with several shards delivering to the same handler no two book
\* updates are applied concurrently: at most one client is inside
\* handle_book_update; from its raw-log write to its return no other task
\* takes a step, so no other handling begins; and the raw log, the market
\* graph and the opportunity log are written only by the one call in
\* progress.
C25_HandlerRunsToCompletion ==
    [][/\ Cardinality(DOMAIN in_handler') <= 1
       /\ in_handler /= <<>> =>
             /\ DOMAIN in_handler' \subseteq DOMAIN in_handler
             /\ shard' = shard /\ appPc' = appPc /\ stopPc' = stopPc
             /\ raw_log' = raw_log
       /\ (events' /= events \/ opportunities' /= opportunities) => in_handler /= <<>>
       /\ raw_log' /= raw_log => (in_handler = <<>> /\ in_handler' /= <<>>)]_vars

\* client 2 inside the handler, its update routed and not yet evaluated,
\* after an update of client 1 was handled, both clients in their message
\* loops
C25_Witness ==
    /\ DOMAIN in_handler = {2}
    /\ in_handler[2].step = "routed"
    /\ Len(raw_log) = 2
    /\ raw_log[1].data.asset_id = clients[1][1]
    /\ shard[1].pc = "reading" /\ shard[1].running
    /\ events["1"].outcomes[1].yes.order_book.asks.levels /= <<>>
====
